---------------------------- MODULE Spec2Model ----------------------------
(***************************************************************************)
(* Train traffic control core: the priority scheduler                      *)
(* (src/src/core/optimizer.py) and the schedule validator                  *)
(* (src/src/core/safety_validator.py) over the domain model                *)
(* (src/src/core/models.py).                                               *)
(*                                                                         *)
(* Times are minutes.  The code computes them in floating point; the block *)
(* lengths and speeds used here make every travel time a whole number of   *)
(* minutes, so integer arithmetic gives the same values.                   *)
(***************************************************************************)
EXTENDS Integers, Sequences, FiniteSets, TLC

VARIABLES
    headway_min,    \* Section.headway_min of the section in use
    trains,         \* the list of Train objects handed to the core
    schedule,       \* ScheduleDecision.entries returned by the last optimize call / handed to validate
    status,         \* outcome of the last optimize call: "none", "returned", "KeyError"
    current_time,   \* the current_time argument of the last optimize call
    prev_time,      \* the current_time argument of the optimize call before the last
    calls,          \* optimize calls made so far: 0, 1, or 2 for two or more
    validated,      \* whether validate_schedule has been called and has returned
    violations,     \* list of SafetyViolation returned by the last validate_schedule call
    is_safe,        \* is_safe returned by the last validate_schedule call
    clearance,      \* the last verify_block_clearance call made from outside: <<>> or <<[block_id, time, clear]>>
    crossing,       \* the last handle_crossing call: <<>> or <<[train1, train2, meeting_block, result]>>
    phase,          \* position in EnhancedSimulator.simulate: "idle", "loop", "trains", "tick_end", "returned"
    cursor,         \* position in train_states of the train the per-train loop handles next
    train_states,   \* simulate's train_states, in insertion order (the order of trains)
    sim_block_occupancy, \* simulate's block_occupancy: block id -> train id, NoTrain for None
    events,         \* self.events
    kpis,           \* simulate's EnhancedKPIs
    block_busy_time,\* simulate's block_busy_time
    train_distances,\* simulate's train_distances, in units of 1/3600 km
    train_times,    \* simulate's train_times
    disruptions,    \* the disruptions argument of simulate
    realtime_callback, \* whether simulate was given a realtime_callback
    sim_current_time, \* self.current_time of the simulator
    original_dep,   \* history: dep_time_min of each train when simulate was called
    observed        \* the arguments of the last realtime_callback invocation, if any

simvars == <<phase, cursor, train_states, sim_block_occupancy, events, kpis, block_busy_time,
             train_distances, train_times, disruptions, realtime_callback,
             sim_current_time, original_dep, observed>>

vars == <<headway_min, trains, schedule, status, current_time, prev_time, calls,
          validated, violations, is_safe, clearance, crossing, simvars>>

(***************************************************************************)
(* Bounds of the model.                                                    *)
(***************************************************************************)
MaxTrains == 2
\* trains in a fleet handed to the validator to meet on one block
MaxOnBlock == 3
\* the max_time argument of simulate, in minutes
MaxTime == 20
\* bits of the mantissa of a float in the specification with rounding
MantissaBits == 4

None == "None"

\* block_occupancy and the train_id of an event hold a train id or None; the
\* ids are the positive list positions, and 0 stands for None there
NoTrain == 0

Min(a, b) == IF a <= b THEN a ELSE b
Max(a, b) == IF a >= b THEN a ELSE b

(***************************************************************************)
(* Domain model (models.py).                                               *)
(***************************************************************************)
\* Section.blocks: a two-way plain block, a two-way station block and a
\* one-way ("up") plain block.
Blocks ==
    << [id |-> "B1", length_km |-> 10, max_speed_kmph |-> 100, direction |-> "bi",
        station |-> None, loop_capacity |-> 1],
       [id |-> "B2", length_km |-> 5, max_speed_kmph |-> 60, direction |-> "bi",
        station |-> "STN", loop_capacity |-> 2],
       [id |-> "B3", length_km |-> 10, max_speed_kmph |-> 100, direction |-> "up",
        station |-> None, loop_capacity |-> 1] >>

\* self.block_map = {b.id: b for b in section.blocks}
block_map == [b \in {Blocks[i].id : i \in 1..Len(Blocks)} |->
                 Blocks[CHOOSE i \in 1..Len(Blocks) : Blocks[i].id = b]]

\* `if block.station` : a station name that is set (and not empty) is truthy
HasStation(block) == block.station # None


(***************************************************************************)
(* Occupancy window as the scheduler computes it (optimizer.py).           *)
(***************************************************************************)
\* travel_time = (block.length_km / min(train.max_speed_kmph, block.max_speed_kmph)) * 60
TravelTime(train, block) ==
    (block.length_km * 60) \div Min(train.max_speed_kmph, block.max_speed_kmph)

\* dwell_time = train.dwell_min if block.station else 0
DwellTime(train, block) == IF HasStation(block) THEN train.dwell_min ELSE 0

\* exit_time = entry_time + travel_time + dwell_time
ExitTime(train, block, entry_time) ==
    entry_time + TravelTime(train, block) + DwellTime(train, block)

(***************************************************************************)
(* ScheduleDecision (models.py).                                           *)
(***************************************************************************)
EmptyDict == <<>>

\* ScheduleDecision.get_entry: entries.get(train_id, {}).get(block_id)
get_entry(entries, train_id, block_id) ==
    IF train_id \in DOMAIN entries /\ block_id \in DOMAIN entries[train_id]
    THEN entries[train_id][block_id]
    ELSE None

\* for block_id, entry_time in train_schedule.items(): schedule.set_entry(...)
\* (set_entry is entries.setdefault(train_id, {})[block_id] = t; a train with
\* an empty train_schedule gets no key at all)
set_entries(entries, train_id, train_schedule) ==
    IF DOMAIN train_schedule = {} THEN entries
    ELSE (train_id :> (train_schedule @@
                       (IF train_id \in DOMAIN entries THEN entries[train_id] ELSE EmptyDict)))
         @@ entries

(***************************************************************************)
(* HeuristicOptimizer (optimizer.py).                                      *)
(***************************************************************************)
\* key=lambda t: (t.priority, t.dep_time_min)
SortKeyLess(a, b) ==
    \/ a.priority < b.priority
    \/ a.priority = b.priority /\ a.dep_time_min < b.dep_time_min

\* sorted() is stable: an element goes after every element whose key is not larger
\* a sort that ignores the key and puts each train first
InsertSortedUnordered(t, s) == <<t>> \o s

RECURSIVE InsertSorted(_, _)
InsertSorted(t, s) ==
    IF s = <<>> THEN <<t>>
    ELSE IF SortKeyLess(t, Head(s)) THEN <<t>> \o s
    ELSE <<Head(s)>> \o InsertSorted(t, Tail(s))

RECURSIVE SortFrom(_, _, _)
SortFrom(ts, i, acc) ==
    IF i > Len(ts) THEN acc ELSE SortFrom(ts, i + 1, InsertSorted(ts[i], acc))

\* sorted_trains = sorted(trains, key=lambda t: (t.priority, t.dep_time_min))
sorted_trains(ts) == SortFrom(ts, 1, <<>>)

\* for occ_entry, occ_exit, occ_train_id in block_occupancy[block_id]:
\*     if entry_time < occ_exit + headway: entry_time = occ_exit + headway
\* a conflict check that forgets the headway: the train enters at the exit
RECURSIVE AdjustEntryNoHeadway(_, _)
AdjustEntryNoHeadway(entry_time, occs) ==
    IF occs = <<>> THEN entry_time
    ELSE AdjustEntryNoHeadway(IF entry_time < Head(occs).exit THEN Head(occs).exit
                              ELSE entry_time,
                              Tail(occs))

RECURSIVE AdjustEntry(_, _)
AdjustEntry(entry_time, occs) ==
    IF occs = <<>> THEN entry_time
    ELSE AdjustEntry(IF entry_time < Head(occs).exit + headway_min
                     THEN Head(occs).exit + headway_min
                     ELSE entry_time,
                     Tail(occs))

\* a propagation that hands the entry time on instead of the exit time
NextEntryStays(entry_time, exit_time) == entry_time

\* entry_time = exit_time  ("Next block entry time is this block's exit time")
NextEntry(entry_time, exit_time) == exit_time

\* block = self.block_map[block_id] raises KeyError for an id the section lacks
KnownBlock(block_id) == block_id \in DOMAIN block_map

\* the body of `for block_id in train.route`, from route position i on
RECURSIVE ScheduleRoute(_, _, _, _, _)
ScheduleRoute(train, i, entry_time, train_schedule, block_occupancy) ==
    IF i > Len(train.route)
    THEN [train_schedule |-> train_schedule, block_occupancy |-> block_occupancy,
          raised |-> FALSE]
    ELSE LET block_id == train.route[i] IN
         IF ~KnownBlock(block_id)
         THEN [train_schedule |-> train_schedule, block_occupancy |-> block_occupancy,
               raised |-> TRUE]
         ELSE LET block == block_map[block_id]
                  entry == IF block_id \in DOMAIN block_occupancy
                           THEN AdjustEntry(entry_time, block_occupancy[block_id])
                           ELSE entry_time
                  exit_time == ExitTime(train, block, entry)
                  old == IF block_id \in DOMAIN block_occupancy
                         THEN block_occupancy[block_id] ELSE <<>>
                  occ == (block_id :> Append(old, [entry |-> entry, exit |-> exit_time,
                                                   train_id |-> train.id]))
                         @@ block_occupancy
              IN ScheduleRoute(train, i + 1, NextEntry(entry, exit_time),
                               (block_id :> entry) @@ train_schedule, occ)

\* a _schedule_train that starts from the departure time alone
schedule_train_no_floor(train, block_occupancy, now) ==
    ScheduleRoute(train, 1, train.dep_time_min, EmptyDict, block_occupancy)

\* HeuristicOptimizer._schedule_train
schedule_train(train, block_occupancy, now) ==
    ScheduleRoute(train, 1, Max(train.dep_time_min, now), EmptyDict, block_occupancy)

\* a loop that swallows the KeyError of a train and goes on with the next
RECURSIVE OptimizeLoopSkipping(_, _, _, _, _)
OptimizeLoopSkipping(sorted, k, entries, block_occupancy, now) ==
    IF k > Len(sorted) THEN [entries |-> entries, raised |-> FALSE]
    ELSE LET r == schedule_train(sorted[k], block_occupancy, now) IN
         IF r.raised
         THEN OptimizeLoopSkipping(sorted, k + 1, entries, block_occupancy, now)
         ELSE OptimizeLoopSkipping(sorted, k + 1,
                                   set_entries(entries, sorted[k].id, r.train_schedule),
                                   r.block_occupancy, now)

\* the body of `for train in sorted_trains`, from position k on
RECURSIVE OptimizeLoop(_, _, _, _, _)
OptimizeLoop(sorted, k, entries, block_occupancy, now) ==
    IF k > Len(sorted) THEN [entries |-> entries, raised |-> FALSE]
    ELSE LET r == schedule_train(sorted[k], block_occupancy, now) IN
         IF r.raised THEN [entries |-> None, raised |-> TRUE]
         ELSE OptimizeLoop(sorted, k + 1,
                           set_entries(entries, sorted[k].id, r.train_schedule),
                           r.block_occupancy, now)

\* HeuristicOptimizer.optimize: schedule and block_occupancy start empty in every call
optimize(ts, now) == OptimizeLoop(sorted_trains(ts), 1, EmptyDict, EmptyDict, now)

\* a crossing rule under which the first train passed always proceeds
handle_crossing_first(train1, train2, meeting_block) ==
    <<train2.id, train1.id>>

\* HeuristicOptimizer.handle_crossing: (waiting_train_id, proceeding_train_id)
handle_crossing(train1, train2, meeting_block) ==
    IF train1.priority <= train2.priority
    THEN <<train2.id, train1.id>>
    ELSE <<train1.id, train2.id>>


(***************************************************************************)
(* CollisionDetector (safety_validator.py).                                *)
(*                                                                         *)
(* A SafetyViolation is modelled by its fields train1_id, train2_id,       *)
(* block_id, time, violation_type and severity; the message text is left   *)
(* out.                                                                    *)
(***************************************************************************)
\* `entry_time is not None` for schedule.get_entry(train.id, block_id)
has_entry(entries, train_id, block_id) ==
    train_id \in DOMAIN entries /\ block_id \in DOMAIN entries[train_id]

\* an exit time that leaves the station dwell out
TimelineExitNoDwell(train, block, entry_time) ==
    entry_time
    + (block.length_km * 60) \div Min(train.max_speed_kmph, block.max_speed_kmph)

\* the validator's own exit time (in _build_occupancy_timeline):
\* exit_time = entry_time + (length_km / min(speeds)) * 60 + (dwell if station else 0)
TimelineExit(train, block, entry_time) ==
    entry_time
    + (block.length_km * 60) \div Min(train.max_speed_kmph, block.max_speed_kmph)
    + (IF HasStation(block) THEN train.dwell_min ELSE 0)

\* A Python dict block_id -> list, with the insertion order of its keys.
EmptyTimeline == [order |-> <<>>, at |-> EmptyDict]

\* if block_id not in d: d[block_id] = [] ; d[block_id].append(item)
TimelineAdd(tl, block_id, item) ==
    IF block_id \in DOMAIN tl.at
    THEN [tl EXCEPT !.at = (block_id :> Append(tl.at[block_id], item)) @@ tl.at]
    ELSE [order |-> Append(tl.order, block_id), at |-> (block_id :> <<item>>) @@ tl.at]

\* the (train, block_id) pairs of `for train in trains: for block_id in train.route`
RECURSIVE RouteVisits(_, _)
RouteVisits(t, i) ==
    IF i > Len(t.route) THEN <<>>
    ELSE <<[train |-> t, block_id |-> t.route[i]]>> \o RouteVisits(t, i + 1)

RECURSIVE Visits(_, _)
Visits(ts, k) ==
    IF k > Len(ts) THEN <<>> ELSE RouteVisits(ts[k], 1) \o Visits(ts, k + 1)

RECURSIVE BuildTimeline(_, _, _, _)
BuildTimeline(entries, visits, n, tl) ==
    IF n > Len(visits) THEN tl
    ELSE LET t == visits[n].train
             block_id == visits[n].block_id
         IN IF ~has_entry(entries, t.id, block_id)
            THEN BuildTimeline(entries, visits, n + 1, tl)
            ELSE LET entry_time == get_entry(entries, t.id, block_id)
                     item == [entry |-> entry_time,
                              exit |-> TimelineExit(t, block_map[block_id], entry_time),
                              train_id |-> t.id]
                 IN BuildTimeline(entries, visits, n + 1, TimelineAdd(tl, block_id, item))

\* CollisionDetector._build_occupancy_timeline
build_occupancy_timeline(entries, ts) ==
    BuildTimeline(entries, Visits(ts, 1), 1, EmptyTimeline)

\* sorted(timeline, key=lambda x: x[0]): stable, by entry time
RECURSIVE InsertByEntry(_, _)
InsertByEntry(x, s) ==
    IF s = <<>> THEN <<x>>
    ELSE IF x.entry < Head(s).entry THEN <<x>> \o s
    ELSE <<Head(s)>> \o InsertByEntry(x, Tail(s))

RECURSIVE SortByEntryFrom(_, _, _)
SortByEntryFrom(timeline, i, acc) ==
    IF i > Len(timeline) THEN acc
    ELSE SortByEntryFrom(timeline, i + 1, InsertByEntry(timeline[i], acc))

sorted_timeline(timeline) == SortByEntryFrom(timeline, 1, <<>>)

SafetyViolation(train1_id, train2_id, block_id, time, violation_type, severity) ==
    [train1_id |-> train1_id, train2_id |-> train2_id, block_id |-> block_id,
     time |-> time, violation_type |-> violation_type, severity |-> severity]

\* overlap_time = exit1 - entry2
OverlapTime(first, second) == first.exit - second.entry

\* a collision check that reports the violation at the first train's entry
CollisionCheckAtFirstEntry(first, second, block_id) ==
    IF second.entry < first.exit /\ OverlapTime(first, second) > 0
    THEN << SafetyViolation(first.train_id, second.train_id, block_id, first.entry,
                            "COLLISION_RISK", "critical") >>
    ELSE <<>>

\* if entry2 < exit1: overlap_time = exit1 - entry2; if overlap_time > 0: COLLISION_RISK
CollisionCheck(first, second, block_id) ==
    IF second.entry < first.exit /\ OverlapTime(first, second) > 0
    THEN << SafetyViolation(first.train_id, second.train_id, block_id, second.entry,
                            "COLLISION_RISK", "critical") >>
    ELSE <<>>

\* a headway check that also flags a gap of exactly the headway
HeadwayCheckInclusive(first, second, block_id) ==
    LET headway == second.entry - first.exit IN
    IF headway <= headway_min /\ headway >= 0
    THEN << SafetyViolation(first.train_id, second.train_id, block_id, second.entry,
                            "INSUFFICIENT_HEADWAY", "warning") >>
    ELSE <<>>

\* headway = entry2 - exit1; if headway < headway_min and headway >= 0: INSUFFICIENT_HEADWAY
HeadwayCheck(first, second, block_id) ==
    LET headway == second.entry - first.exit IN
    IF headway < headway_min /\ headway >= 0
    THEN << SafetyViolation(first.train_id, second.train_id, block_id, second.entry,
                            "INSUFFICIENT_HEADWAY", "warning") >>
    ELSE <<>>

\* a check of the first entry-adjacent pair of a block only
CheckFirstPair(block_id, st, i) ==
    IF i >= Len(st) THEN <<>>
    ELSE CollisionCheck(st[i], st[i + 1], block_id)
         \o HeadwayCheck(st[i], st[i + 1], block_id)

\* for i in range(len(sorted_timeline) - 1): the entry-adjacent pairs of a block
RECURSIVE CheckAdjacent(_, _, _)
CheckAdjacent(block_id, st, i) ==
    IF i >= Len(st) THEN <<>>
    ELSE CollisionCheck(st[i], st[i + 1], block_id)
         \o HeadwayCheck(st[i], st[i + 1], block_id)
         \o CheckAdjacent(block_id, st, i + 1)

\* for block_id, timeline in block_occupancy.items()
RECURSIVE CheckBlocks(_, _)
CheckBlocks(tl, n) ==
    IF n > Len(tl.order) THEN <<>>
    ELSE CheckAdjacent(tl.order[n], sorted_timeline(tl.at[tl.order[n]]), 1)
         \o CheckBlocks(tl, n + 1)

\* the head-on timeline: only the trains the block's direction permits
RECURSIVE BuildHeadOnTimeline(_, _, _, _)
BuildHeadOnTimeline(entries, visits, n, tl) ==
    IF n > Len(visits) THEN tl
    ELSE LET t == visits[n].train
             block_id == visits[n].block_id
         IN IF ~has_entry(entries, t.id, block_id)
            THEN BuildHeadOnTimeline(entries, visits, n + 1, tl)
            ELSE LET block == block_map[block_id] IN
                 IF block.direction = "bi" \/ block.direction = t.direction
                 THEN LET entry_time == get_entry(entries, t.id, block_id)
                          exit_time ==
                              entry_time
                              + (block.length_km * 60)
                                    \div Min(t.max_speed_kmph, block.max_speed_kmph)
                              + (IF HasStation(block) THEN t.dwell_min ELSE 0)
                          item == [entry |-> entry_time, exit |-> exit_time,
                                   train_id |-> t.id, direction |-> t.direction]
                      IN BuildHeadOnTimeline(entries, visits, n + 1,
                                             TimelineAdd(tl, block_id, item))
                 ELSE BuildHeadOnTimeline(entries, visits, n + 1, tl)

\* a head-on check that does not look for a crossing facility
HeadOnCheckIgnoringStation(first, second, block_id) ==
    IF /\ first.direction # second.direction
       /\ ~(first.exit <= second.entry \/ second.exit <= first.entry)
    THEN << SafetyViolation(first.train_id, second.train_id, block_id,
                            Max(first.entry, second.entry),
                            "HEAD_ON_COLLISION_RISK", "critical") >>
    ELSE <<>>

\* if dir1 != dir2 and not (exit1 <= entry2 or exit2 <= entry1): if not block.station
HeadOnCheck(first, second, block_id) ==
    IF /\ first.direction # second.direction
       /\ ~(first.exit <= second.entry \/ second.exit <= first.entry)
       /\ ~HasStation(block_map[block_id])
    THEN << SafetyViolation(first.train_id, second.train_id, block_id,
                            Max(first.entry, second.entry),
                            "HEAD_ON_COLLISION_RISK", "critical") >>
    ELSE <<>>

\* a pair loop that compares only neighbours in the timeline
RECURSIVE CheckPairsNeighbours(_, _, _, _)
CheckPairsNeighbours(block_id, timeline, i, j) ==
    IF j > Len(timeline) THEN <<>>
    ELSE HeadOnCheck(timeline[i], timeline[j], block_id)
         \o CheckPairsNeighbours(block_id, timeline, i + 1, j + 1)

\* for i in range(len(timeline)): for j in range(i + 1, len(timeline))
RECURSIVE CheckPairs(_, _, _, _)
CheckPairs(block_id, timeline, i, j) ==
    IF i > Len(timeline) THEN <<>>
    ELSE IF j > Len(timeline) THEN CheckPairs(block_id, timeline, i + 1, i + 2)
    ELSE HeadOnCheck(timeline[i], timeline[j], block_id)
         \o CheckPairs(block_id, timeline, i, j + 1)

RECURSIVE CheckHeadOnBlocks(_, _)
CheckHeadOnBlocks(tl, n) ==
    IF n > Len(tl.order) THEN <<>>
    ELSE CheckPairs(tl.order[n], tl.at[tl.order[n]], 1, 2) \o CheckHeadOnBlocks(tl, n + 1)

\* CollisionDetector._check_head_on_collisions
check_head_on_collisions(entries, ts) ==
    CheckHeadOnBlocks(BuildHeadOnTimeline(entries, Visits(ts, 1), 1, EmptyTimeline), 1)

\* CollisionDetector.validate_schedule
validate_schedule(entries, ts) ==
    LET vs == CheckBlocks(build_occupancy_timeline(entries, ts), 1)
              \o check_head_on_collisions(entries, ts)
    IN [is_safe |-> ~(\E n \in 1..Len(vs) : vs[n].severity = "critical"),
        violations |-> vs]

\* `block_id in train.route`
InRoute(block_id, train) == \E i \in 1..Len(train.route) : train.route[i] = block_id

\* a clearance test whose window includes the exit time
RECURSIVE verify_block_clearance_closed(_, _, _, _, _)
verify_block_clearance_closed(block_id, time, entries, ts, n) ==
    IF n > Len(ts) THEN TRUE
    ELSE LET train == ts[n] IN
         IF InRoute(block_id, train) /\ has_entry(entries, train.id, block_id)
         THEN LET entry_time == get_entry(entries, train.id, block_id)
                  block == block_map[block_id]
                  exit_time ==
                      entry_time
                      + (block.length_km * 60) \div Min(train.max_speed_kmph, block.max_speed_kmph)
                      + (IF HasStation(block) THEN train.dwell_min ELSE 0)
              IN IF entry_time <= time /\ time <= exit_time
                 THEN FALSE
                 ELSE verify_block_clearance_closed(block_id, time, entries, ts, n + 1)
         ELSE verify_block_clearance_closed(block_id, time, entries, ts, n + 1)

\* CollisionDetector.verify_block_clearance, the loop from train n of ts on
RECURSIVE verify_block_clearance(_, _, _, _, _)
verify_block_clearance(block_id, time, entries, ts, n) ==
    IF n > Len(ts) THEN TRUE
    ELSE LET train == ts[n] IN
         IF InRoute(block_id, train) /\ has_entry(entries, train.id, block_id)
         THEN LET entry_time == get_entry(entries, train.id, block_id)
                  block == block_map[block_id]
                  exit_time ==
                      entry_time
                      + (block.length_km * 60) \div Min(train.max_speed_kmph, block.max_speed_kmph)
                      + (IF HasStation(block) THEN train.dwell_min ELSE 0)
              IN IF entry_time <= time /\ time < exit_time
                 THEN FALSE
                 ELSE verify_block_clearance(block_id, time, entries, ts, n + 1)
         ELSE verify_block_clearance(block_id, time, entries, ts, n + 1)

\* simulate has not been called
NotSimulating ==
    /\ phase = "idle"
    /\ cursor = 0
    /\ train_states = <<>>
    /\ sim_block_occupancy = <<>>
    /\ events = <<>>
    /\ kpis = <<>>
    /\ block_busy_time = <<>>
    /\ train_distances = <<>>
    /\ train_times = <<>>
    /\ disruptions = <<>>
    /\ realtime_callback = FALSE
    /\ sim_current_time = 0
    /\ original_dep = <<>>
    /\ observed = <<>>

(***************************************************************************)
(* Inputs of the scheduler: fleets of at most MaxTrains trains.            *)
(***************************************************************************)
HeadwayChoices == {-1, 0, 3}
NowChoices == {0, 5}

\* (priority, dep_time_min) of a train
OptKeys == {<<1, 0>>, <<1, 1>>, <<1, 20>>, <<2, 0>>}

\* route, speed, dwell and direction of a train
OptProfiles ==
    { [route |-> <<"B1">>, max_speed_kmph |-> 100, dwell_min |-> 2, direction |-> "up"],
      [route |-> <<"B1", "B2">>, max_speed_kmph |-> 100, dwell_min |-> 2, direction |-> "up"],
      [route |-> <<"B2", "B1">>, max_speed_kmph |-> 60, dwell_min |-> 0, direction |-> "down"] }

\* the usage errors: an empty route, and a route naming a block the section lacks
BadProfiles ==
    { [route |-> <<>>, max_speed_kmph |-> 100, dwell_min |-> 2, direction |-> "up"],
      [route |-> <<"B1", "BX">>, max_speed_kmph |-> 60, dwell_min |-> 0, direction |-> "up"] }

OptChoices == (OptKeys \X OptProfiles) \cup ({<<1, 0>>} \X BadProfiles)

\* Train(id, priority, max_speed_kmph, dwell_min, route, direction, dep_time_min)
MakeTrain(id, key, profile) ==
    [id |-> id, priority |-> key[1], max_speed_kmph |-> profile.max_speed_kmph,
     dwell_min |-> profile.dwell_min, route |-> profile.route,
     direction |-> profile.direction, dep_time_min |-> key[2]]

\* the train in position i has id i
OptFleets ==
    UNION { { [i \in 1..n |-> MakeTrain(i, c[i][1], c[i][2])] :
              c \in [1..n -> OptChoices] } : n \in 0..MaxTrains }

(***************************************************************************)
(* The scheduler specification: a section and a fleet, then optimize calls.*)
(***************************************************************************)
InitOpt ==
    /\ headway_min \in HeadwayChoices
    /\ trains \in OptFleets
    /\ schedule = None
    /\ status = "none"
    /\ current_time = None
    /\ prev_time = None
    /\ calls = 0
    /\ validated = FALSE
    /\ violations = <<>>
    /\ is_safe = TRUE
    /\ clearance = <<>>
    /\ crossing = <<>>
    /\ NotSimulating

\* an optimize that writes each train's first planned entry back into the
\* train's departure time
OptimizeWritingTrains(now) ==
    /\ LET r == optimize(trains, now) IN
         /\ status' = IF r.raised THEN "KeyError" ELSE "returned"
         /\ schedule' = r.entries
         /\ trains' = IF r.raised THEN trains
                      ELSE [i \in 1..Len(trains) |->
                              IF trains[i].id \in DOMAIN r.entries
                              THEN [trains[i] EXCEPT !.dep_time_min =
                                       r.entries[trains[i].id][trains[i].route[1]]]
                              ELSE trains[i]]
    /\ current_time' = now
    /\ prev_time' = current_time
    /\ calls' = Min(calls + 1, 2)
    /\ UNCHANGED <<headway_min, validated, violations, is_safe,
                   clearance, crossing, simvars>>

\* schedule = self.optimizer.optimize(trains, now): the call returns the
\* ScheduleDecision or raises KeyError; the trains and the section are only read
Optimize(now) ==
    /\ LET r == optimize(trains, now) IN
         /\ status' = IF r.raised THEN "KeyError" ELSE "returned"
         /\ schedule' = r.entries
    /\ current_time' = now
    /\ prev_time' = current_time
    /\ calls' = Min(calls + 1, 2)
    /\ UNCHANGED <<headway_min, trains, validated, violations, is_safe,
                   clearance, crossing, simvars>>

NextOpt == \E now \in NowChoices : Optimize(now)

SpecOpt == InitOpt /\ [][NextOpt]_vars

(***************************************************************************)
(* Properties of the scheduler.                                            *)
(***************************************************************************)
Range(seq) == {seq[i] : i \in 1..Len(seq)}

\* the blocks two trains both run over
SharedBlocks(a, b) == Range(a.route) \cap Range(b.route)

\* the occupancy window of train t on block b in a schedule
EntryOf(entries, t, b) == get_entry(entries, t.id, b)
ExitOf(entries, t, b) == ExitTime(t, block_map[b], EntryOf(entries, t, b))

\* the list without its j-th element
Without(seq, j) == SubSeq(seq, 1, j - 1) \o SubSeq(seq, j + 1, Len(seq))

\* train j comes after train i in (priority, departure time) order, the input
\* order deciding between equal keys
SortsAfter(ts, j, i) ==
    \/ SortKeyLess(ts[i], ts[j])
    \/ ~SortKeyLess(ts[j], ts[i]) /\ i < j

\* the entries a schedule holds for one train (the empty dict when it has none)
EntriesOf(entries, t) == IF t.id \in DOMAIN entries THEN entries[t.id] ELSE EmptyDict

C2_PriorityMonotone ==
    status = "returned" =>
        \A i, j \in 1..Len(trains) :
            (i # j /\ SortsAfter(trains, j, i)) =>
                LET r == optimize(Without(trains, j), current_time)
                IN /\ ~r.raised
                   /\ EntriesOf(r.entries, trains[i]) = EntriesOf(schedule, trains[i])

\* a lower-priority train departs first on a shared block, and yet the
\* higher-priority train enters that block at its own departure time
C2_Witness ==
    /\ status = "returned"
    /\ \E i, j \in 1..Len(trains) :
           /\ trains[i].priority < trains[j].priority
           /\ trains[j].dep_time_min < trains[i].dep_time_min
           /\ trains[i].route # <<>>
           /\ trains[i].route[1] \in Range(trains[j].route)
           /\ current_time <= trains[i].dep_time_min
           /\ EntryOf(schedule, trains[i], trains[i].route[1]) = trains[i].dep_time_min
           /\ EntryOf(schedule, trains[j], trains[i].route[1]) > trains[i].dep_time_min

SingleBlockPair(i, j) ==
    /\ Len(trains) = 2
    /\ i # j
    /\ Len(trains[i].route) = 1
    /\ trains[j].route = trains[i].route
    /\ trains[i].priority = trains[j].priority
    /\ trains[i].dep_time_min < trains[j].dep_time_min

\* C4 as stated: on a single shared block with two equal-priority trains the
\* train with the earlier departure enters at its departure time and the other
\* at max(its own departure, first entry + travel + dwell + headway).
C4_AsStated ==
    (status = "returned" /\ headway_min >= 0) =>
        \A i, j \in 1..Len(trains) :
            SingleBlockPair(i, j) =>
                LET b == trains[i].route[1] IN
                /\ EntryOf(schedule, trains[i], b) = trains[i].dep_time_min
                /\ EntryOf(schedule, trains[j], b)
                       = Max(trains[j].dep_time_min,
                             ExitOf(schedule, trains[i], b) + headway_min)

\* C4 amended: the train with the earlier departure enters at max(its
\* departure, current time) and the other at max(its own departure, current
\* time, first entry + travel + dwell + headway); in the worked example
\* (travel 6, headway 3, departures 0 and 1, current time 0) the entries are
\* 0 and 9.
C4_FloorAtCurrentTime ==
    status = "returned" =>
        \A i, j \in 1..Len(trains) :
            SingleBlockPair(i, j) =>
                LET b == trains[i].route[1] IN
                /\ EntryOf(schedule, trains[i], b)
                       = Max(trains[i].dep_time_min, current_time)
                /\ EntryOf(schedule, trains[j], b)
                       = Max(Max(trains[j].dep_time_min, current_time),
                             ExitOf(schedule, trains[i], b) + headway_min)
                /\ ( /\ current_time = 0
                     /\ headway_min = 3
                     /\ trains[i].dep_time_min = 0
                     /\ trains[j].dep_time_min = 1
                     /\ TravelTime(trains[i], block_map[b]) = 6
                     /\ DwellTime(trains[i], block_map[b]) = 0 )
                   => /\ EntryOf(schedule, trains[i], b) = 0
                      /\ EntryOf(schedule, trains[j], b) = 9

\* the worked example: one block of 10 km at 100 km/h, headway 3, equal
\* priorities, departures 0 and 1, current time 0: entries 0 and 9
C4_Witness ==
    /\ status = "returned"
    /\ current_time = 0
    /\ headway_min = 3
    /\ \E i, j \in 1..Len(trains) :
           /\ SingleBlockPair(i, j)
           /\ trains[i].route = <<"B1">>
           /\ trains[i].max_speed_kmph = 100
           /\ trains[i].dep_time_min = 0
           /\ trains[j].dep_time_min = 1
           /\ EntryOf(schedule, trains[i], "B1") = 0
           /\ EntryOf(schedule, trains[j], "B1") = 9

\* position of the train with this id in a list of trains
PosOf(ts, id) == CHOOSE k \in 1..Len(ts) : ts[k].id = id

\* the time propagated to position i of train t's route: the departure time
\* floored at the current time for the first block, the exit of the previous
\* block after it
Propagated(entries, t, i) ==
    IF i = 1 THEN Max(t.dep_time_min, current_time)
    ELSE ExitOf(entries, t, t.route[i - 1])

\* the trains whose intervals on block b are committed when train t is
\* scheduled: those processed before it that run over b
CommittedBefore(t, b) ==
    LET st == sorted_trains(trains) IN
    { st[k] : k \in { n \in 1..Len(st) : n < PosOf(st, t.id) /\ b \in Range(st[n].route) } }

\* train t entering block b at time p stays at least headway clear of the
\* committed interval of train o on b: it enters headway after o has left, or
\* leaves headway before o enters
ClearOf(entries, t, b, p, o) ==
    \/ p >= ExitOf(entries, o, b) + headway_min
    \/ ExitTime(t, block_map[b], p) + headway_min <= EntryOf(entries, o, b)

\* C5: at each block the entry is the larger of the propagated time and the
\* smallest time that clears the committed intervals the train would otherwise
\* overlap; in particular a train whose window at the propagated time conflicts
\* with no committed interval on that block is not delayed.
C5_NoDelayWithoutConflict ==
    (status = "returned" /\ headway_min >= 0) =>
        \A n \in 1..Len(trains) :
            \A i \in 1..Len(trains[n].route) :
                LET t == trains[n]
                    b == t.route[i]
                    p == Propagated(schedule, t, i)
                IN (\A o \in CommittedBefore(t, b) : ClearOf(schedule, t, b, p, o))
                       => EntryOf(schedule, t, b) = p

SomeUnknownBlock == \E n \in 1..Len(trains) : \E b \in Range(trains[n].route) : ~KnownBlock(b)

\* C7: if a route names a block id that is not in the section, optimize fails
\* with an error and hands no schedule, not even a partial one, to the caller.
C7_UnknownBlockRaises ==
    (calls >= 1 /\ SomeUnknownBlock) => (status = "KeyError" /\ schedule = None)

\* optimize raised for a fleet in which another train, processed before the
\* one with the unknown block, has a valid route
C7_Witness ==
    /\ status = "KeyError"
    /\ schedule = None
    /\ \E n, m \in 1..Len(trains) :
           /\ \E b \in Range(trains[n].route) : ~KnownBlock(b)
           /\ trains[m].route # <<>>
           /\ \A b \in Range(trains[m].route) : KnownBlock(b)
           /\ SortsAfter(trains, n, m)

\* C8: a negative headway or a train with an empty route is rejected with an
\* error: optimize never returns a schedule computed with a negative headway
\* or for a fleet containing a train with an empty route.
C8_BadConfigRejected ==
    status = "returned" =>
        /\ headway_min >= 0
        /\ \A n \in 1..Len(trains) : trains[n].route # <<>>

(***************************************************************************)
(* The validator specification: a fleet and any schedule, then validation. *)
(***************************************************************************)
ValHeadways == {0, 3}
ValTimes == {0, 5, 10, 13}

\* single-block routes over each block in both directions (speed 60, dwell 2:
\* the window is 10 minutes on B1 and B3 and 7 minutes on B2)
ValProfiles ==
    { [route |-> <<b>>, max_speed_kmph |-> 60, dwell_min |-> 2, direction |-> d] :
      b \in {"B1", "B2", "B3"}, d \in {"up", "down"} }

\* a train and the entries the schedule holds for it: none, any time on its
\* single block, or a run over B1 and then B2
ValChoices ==
    { [profile |-> pr, entries |-> EmptyDict] : pr \in ValProfiles }
    \cup { [profile |-> pr, entries |-> (pr.route[1] :> t)] : pr \in ValProfiles, t \in ValTimes }
    \cup { [profile |-> [route |-> <<"B1", "B2">>, max_speed_kmph |-> 60, dwell_min |-> 2,
                         direction |-> "up"],
            entries |-> ("B1" :> t) @@ ("B2" :> t + 10)] : t \in ValTimes }

ValInputs == UNION { [1..n -> ValChoices] : n \in 0..MaxTrains }

InitVal ==
    /\ headway_min \in ValHeadways
    /\ \E c \in ValInputs :
           /\ trains = [i \in 1..Len(c) |-> MakeTrain(i, <<1, 0>>, c[i].profile)]
           /\ schedule = [i \in {k \in 1..Len(c) : DOMAIN c[k].entries # {}} |-> c[i].entries]
    /\ status = "none"
    /\ current_time = None
    /\ prev_time = None
    /\ calls = 0
    /\ validated = FALSE
    /\ violations = <<>>
    /\ is_safe = TRUE
    /\ clearance = <<>>
    /\ crossing = <<>>
    /\ NotSimulating

\* is_safe, violations = self.collision_detector.validate_schedule(schedule, trains)
Validate ==
    /\ LET r == validate_schedule(schedule, trains) IN
         /\ is_safe' = r.is_safe
         /\ violations' = r.violations
    /\ validated' = TRUE
    /\ UNCHANGED <<headway_min, trains, schedule, status, current_time, prev_time, calls,
                   clearance, crossing, simvars>>

NextVal == Validate

SpecVal == InitVal /\ [][NextVal]_vars

(***************************************************************************)
(* Properties of the validator.  The windows are recomputed here with the  *)
(* occupancy formula of the scheduler, and the order of two trains on a    *)
(* block is stated on the entry times, not read from the validator.        *)
(***************************************************************************)
\* the trains with an entry on block b
OnBlock(b) ==
    { n \in 1..Len(trains) : b \in Range(trains[n].route)
                             /\ has_entry(schedule, trains[n].id, b) }

\* train n precedes train m in entry order on block b (the list order
\* deciding between equal entries)
Precedes(n, m, b) ==
    \/ EntryOf(schedule, trains[n], b) < EntryOf(schedule, trains[m], b)
    \/ EntryOf(schedule, trains[n], b) = EntryOf(schedule, trains[m], b) /\ n < m

\* n and m are entry-adjacent on b, n first
Adjacent(n, m, b) ==
    /\ n \in OnBlock(b)
    /\ m \in OnBlock(b)
    /\ n # m
    /\ Precedes(n, m, b)
    /\ ~\E k \in OnBlock(b) \ {n, m} : Precedes(n, k, b) /\ Precedes(k, m, b)

\* gap = entry(second) - exit(first)
Gap(n, m, b) == EntryOf(schedule, trains[m], b) - ExitOf(schedule, trains[n], b)

\* the violations of one type reported for trains n, m (in either order) on b
Reported(n, m, b, type) ==
    { k \in 1..Len(violations) :
        /\ violations[k].violation_type = type
        /\ violations[k].block_id = b
        /\ {violations[k].train1_id, violations[k].train2_id} = {trains[n].id, trains[m].id} }

\* C9: overlap soundness: for two entry-adjacent trains (two trains alone on a
\* block always are) whose recomputed windows on the block overlap,
\* validate_schedule emits exactly one collision-risk violation for the pair,
\* critical, at the later train's entry time, the overlap being the earlier
\* exit minus the later entry (5 for [0,10) and [5,15)), and is_safe is false.
C9_OverlapSoundness ==
    validated =>
        \A b \in DOMAIN block_map :
            \A n, m \in OnBlock(b) :
                (Adjacent(n, m, b) /\ Gap(n, m, b) < 0) =>
                    /\ Cardinality(Reported(n, m, b, "COLLISION_RISK")) = 1
                    /\ \A k \in Reported(n, m, b, "COLLISION_RISK") :
                           /\ violations[k].severity = "critical"
                           /\ violations[k].time = EntryOf(schedule, trains[m], b)
                           /\ violations[k].train1_id = trains[n].id
                           /\ violations[k].train2_id = trains[m].id
                           /\ OverlapTime([exit |-> ExitOf(schedule, trains[n], b)],
                                          [entry |-> violations[k].time]) = -Gap(n, m, b)
                    /\ ( /\ EntryOf(schedule, trains[n], b) = 0
                         /\ ExitOf(schedule, trains[n], b) = 10
                         /\ EntryOf(schedule, trains[m], b) = 5
                         /\ ExitOf(schedule, trains[m], b) = 15 )
                       => OverlapTime([exit |-> 10], [entry |-> 5]) = 5
                    /\ is_safe = FALSE

\* the example: two trains alone on B1 with windows [0,10) and [5,15), one
\* collision-risk violation at time 5
C9_Witness ==
    /\ validated
    /\ \E n, m \in OnBlock("B1") :
           /\ OnBlock("B1") = {n, m}
           /\ trains[n].direction = trains[m].direction
           /\ EntryOf(schedule, trains[n], "B1") = 0
           /\ ExitOf(schedule, trains[n], "B1") = 10
           /\ EntryOf(schedule, trains[m], "B1") = 5
           /\ ExitOf(schedule, trains[m], "B1") = 15
           /\ violations = << SafetyViolation(trains[n].id, trains[m].id, "B1", 5,
                                              "COLLISION_RISK", "critical") >>
           /\ ~is_safe

\* C10: headway boundary, for two entry-adjacent windows on a block with
\* gap = entry(second) - exit(first): a gap in [0, headway) yields exactly one
\* insufficient-headway warning and no collision; a gap of headway or more
\* yields no violation for the pair; a negative gap yields a critical collision
\* violation and no headway warning.
C10_HeadwayBoundary ==
    validated =>
        \A b \in DOMAIN block_map :
            \A n, m \in OnBlock(b) :
                Adjacent(n, m, b) =>
                    LET gap == Gap(n, m, b)
                        collisions == Reported(n, m, b, "COLLISION_RISK")
                        warnings == Reported(n, m, b, "INSUFFICIENT_HEADWAY")
                        headons == Reported(n, m, b, "HEAD_ON_COLLISION_RISK")
                    IN /\ (0 <= gap /\ gap < headway_min) =>
                              /\ Cardinality(warnings) = 1
                              /\ \A k \in warnings : violations[k].severity = "warning"
                              /\ collisions = {}
                       /\ gap >= headway_min /\ gap >= 0 =>
                              collisions \cup warnings \cup headons = {}
                       /\ gap < 0 =>
                              /\ Cardinality(collisions) = 1
                              /\ \A k \in collisions : violations[k].severity = "critical"
                              /\ warnings = {}

\* two entry-adjacent trains with a gap of at least 0 and less than a headway
\* of 3, and the one warning it yields
C10_Witness ==
    /\ validated
    /\ headway_min = 3
    /\ \E b \in DOMAIN block_map :
           \E n, m \in OnBlock(b) :
               /\ Adjacent(n, m, b)
               /\ Gap(n, m, b) \in {1, 2}
               /\ violations = << SafetyViolation(trains[n].id, trains[m].id, b,
                                                  EntryOf(schedule, trains[m], b),
                                                  "INSUFFICIENT_HEADWAY", "warning") >>
               /\ is_safe

(***************************************************************************)
(* Properties of the head-on check.                                        *)
(***************************************************************************)
\* the recomputed windows of trains n and m on block b overlap
Overlapping(n, m, b) ==
    /\ EntryOf(schedule, trains[n], b) < ExitOf(schedule, trains[m], b)
    /\ EntryOf(schedule, trains[m], b) < ExitOf(schedule, trains[n], b)

\* the two trains run in different directions
Opposed(n, m) == trains[n].direction # trains[m].direction

\* the head-on violations reported for the pair on b are exactly one, critical
OneHeadOn(n, m, b) ==
    /\ Cardinality(Reported(n, m, b, "HEAD_ON_COLLISION_RISK")) = 1
    /\ \A k \in Reported(n, m, b, "HEAD_ON_COLLISION_RISK") :
           violations[k].severity = "critical"

\* C11: head-on detection on a directional block: two opposite-direction
\* trains with overlapping windows on a block that is not bidirectional and
\* has no station produce exactly one critical head-on-risk violation.
C11_HeadOnDirectional ==
    validated =>
        \A b \in DOMAIN block_map :
            (block_map[b].direction # "bi" /\ ~HasStation(block_map[b])) =>
                \A n, m \in OnBlock(b) :
                    (n < m /\ Opposed(n, m) /\ Overlapping(n, m, b)) => OneHeadOn(n, m, b)

\* C12 as stated: two opposite-direction trains with overlapping windows on a
\* block that has a station produce no violation at all: the returned list
\* is empty.
C12_AsStated ==
    validated =>
        \A b \in DOMAIN block_map :
            HasStation(block_map[b]) =>
                \A n, m \in OnBlock(b) :
                    (n < m /\ Opposed(n, m) /\ Overlapping(n, m, b)) => violations = <<>>

\* C12: head-on with a crossing facility: two opposite-direction trains with
\* overlapping windows on a block that has a station produce no head-on-risk
\* violation; the same-block check still reports the overlap of the two when
\* they are entry-adjacent, so the list holds one critical collision-risk
\* violation for them and is_safe is false.
C12_StationNoHeadOn ==
    validated =>
        \A b \in DOMAIN block_map :
            HasStation(block_map[b]) =>
                \A n, m \in OnBlock(b) :
                    (n # m /\ Opposed(n, m) /\ Overlapping(n, m, b)) =>
                        /\ Reported(n, m, b, "HEAD_ON_COLLISION_RISK") = {}
                        /\ Adjacent(n, m, b) =>
                               /\ Cardinality(Reported(n, m, b, "COLLISION_RISK")) = 1
                               /\ ~is_safe

\* two opposite-direction trains alone on the station block B2 with
\* overlapping windows, validated: one collision-risk violation, no head-on
C12_Witness ==
    /\ validated
    /\ Len(trains) = 2
    /\ OnBlock("B2") = {1, 2}
    /\ Opposed(1, 2)
    /\ Overlapping(1, 2, "B2")
    /\ Len(violations) = 1
    /\ violations[1].violation_type = "COLLISION_RISK"

(***************************************************************************)
(* The head-on specification: up to MaxOnBlock single-block trains, in     *)
(* either direction, with an entry on their block, then validation.        *)
(***************************************************************************)
\* windows of 10 minutes on B1 and B3 and of 7 minutes on B2: the entries 0
\* and 5 overlap, 0 and 12 do not
HeadOnTimes == {0, 5, 12}

HeadOnChoices ==
    { [profile |-> pr, entries |-> (pr.route[1] :> t)] : pr \in ValProfiles, t \in HeadOnTimes }

HeadOnInputs == UNION { [1..n -> HeadOnChoices] : n \in 0..MaxOnBlock }

InitHeadOn ==
    /\ headway_min = 3
    /\ \E c \in HeadOnInputs :
           /\ trains = [i \in 1..Len(c) |-> MakeTrain(i, <<1, 0>>, c[i].profile)]
           /\ schedule = [i \in 1..Len(c) |-> c[i].entries]
    /\ status = "none"
    /\ current_time = None
    /\ prev_time = None
    /\ calls = 0
    /\ validated = FALSE
    /\ violations = <<>>
    /\ is_safe = TRUE
    /\ clearance = <<>>
    /\ crossing = <<>>
    /\ NotSimulating

SpecHeadOn == InitHeadOn /\ [][NextVal]_vars

\* the block's direction admits train n
Permitted(n, b) ==
    block_map[b].direction = "bi" \/ block_map[b].direction = trains[n].direction

ClearEntries == {0, 5}

\* the times asked about: entries, exits, and times inside and outside
ClearTimes == {0, 4, 5, 6, 7, 9, 10, 12, 14, 15}

\* a train with an entry on its single block (B1 or B2), a train the schedule has no
\* entry for, or a run over B1 and then B2
ClearChoices ==
    { [profile |-> pr, entries |-> (pr.route[1] :> t)] :
      pr \in {q \in ValProfiles : q.route[1] # "B3"}, t \in ClearEntries }
    \cup { [profile |-> [route |-> <<"B1">>, max_speed_kmph |-> 60, dwell_min |-> 2,
                         direction |-> "up"],
            entries |-> EmptyDict] }
    \cup { [profile |-> [route |-> <<"B1", "B2">>, max_speed_kmph |-> 60, dwell_min |-> 2,
                         direction |-> "up"],
            entries |-> ("B1" :> 0) @@ ("B2" :> 10)] }

ClearInputs == UNION { [1..n -> ClearChoices] : n \in 0..MaxTrains }

InitClear ==
    /\ headway_min = 3
    /\ \E c \in ClearInputs :
           /\ trains = [i \in 1..Len(c) |-> MakeTrain(i, <<1, 0>>, c[i].profile)]
           /\ schedule = [i \in {k \in 1..Len(c) : DOMAIN c[k].entries # {}} |-> c[i].entries]
    /\ status = "none"
    /\ current_time = None
    /\ prev_time = None
    /\ calls = 0
    /\ validated = FALSE
    /\ violations = <<>>
    /\ is_safe = TRUE
    /\ clearance = <<>>
    /\ crossing = <<>>
    /\ NotSimulating

\* self.collision_detector.verify_block_clearance(block_id, time, schedule, trains)
VerifyClearance(block_id, time) ==
    /\ clearance' = << [block_id |-> block_id, time |-> time,
                        clear |-> verify_block_clearance(block_id, time, schedule, trains, 1)] >>
    /\ UNCHANGED <<headway_min, trains, schedule, status, current_time, prev_time, calls,
                   validated, violations, is_safe, crossing, simvars>>

NextClear ==
    \/ Validate
    \/ \E block_id \in DOMAIN block_map, time \in ClearTimes : VerifyClearance(block_id, time)

SpecClear == InitClear /\ [][NextClear]_vars

\* a train of the fleet has a scheduled entry e on block b with
\* e <= time < e + travel + dwell
WindowContains(b, time) ==
    \E n \in OnBlock(b) :
        /\ EntryOf(schedule, trains[n], b) <= time
        /\ time < EntryOf(schedule, trains[n], b)
                  + TravelTime(trains[n], block_map[b]) + DwellTime(trains[n], block_map[b])

\* C14: verify_block_clearance(block, time, schedule, trains) returns true if
\* and only if no train of trains has a scheduled entry e at that block with
\* e <= time < e + travel + dwell; the answer is that function of the schedule
\* and the fleet passed in, whatever the validator has or has not done before.
C14_ClearanceIff ==
    clearance # <<>> =>
        (clearance[1].clear <=> ~WindowContains(clearance[1].block_id, clearance[1].time))

\* the block is reported clear at the exit time of the one window on it and
\* not clear at its entry time
C14_Witness ==
    /\ clearance # <<>>
    /\ \E n \in OnBlock(clearance[1].block_id) :
           /\ OnBlock(clearance[1].block_id) = {n}
           /\ clearance[1].time = ExitOf(schedule, trains[n], clearance[1].block_id)
           /\ clearance[1].clear

(***************************************************************************)
(* The simulator (src/src/sim/enhanced_simulator.py).  simulate is one     *)
(* call; it is cut at the head of its while loop, before each train of the *)
(* per-train loop and after that loop, so that one step handles one train  *)
(* at one tick.                                                            *)
(***************************************************************************)
\* EnhancedSimulator(section, time_step): a step of one minute
TimeStep == 1

Abs(x) == IF x < 0 THEN -x ELSE x

\* TrainState(train=t, time_min=t.dep_time_min); the train is trains[i]
TrainState(t) ==
    [route_index |-> 0, time_min |-> t.dep_time_min, finished |-> FALSE,
     delay_min |-> 0, location |-> None]

\* Event(timestamp, event_type, train_id, block_id, message, severity)
Event(timestamp, event_type, train_id, block_id, message, severity) ==
    [timestamp |-> timestamp, event_type |-> event_type, train_id |-> train_id,
     block_id |-> block_id, message |-> message, severity |-> severity]

\* a log that puts the newest event first
log_event_first(evs, timestamp, event_type, train_id, block_id, message, severity) ==
    <<Event(timestamp, event_type, train_id, block_id, message, severity)>> \o evs

\* self._log_event(...)
log_event(evs, timestamp, event_type, train_id, block_id, message, severity) ==
    Append(evs, Event(timestamp, event_type, train_id, block_id, message, severity))

\* for violation in violations: if violation.severity == "critical": log it
RECURSIVE LogCritical(_, _, _, _, _, _, _)
LogCritical(evs, vs, n, timestamp, event_type, message, severity) ==
    IF n > Len(vs) THEN evs
    ELSE LogCritical(IF vs[n].severity = "critical"
                     THEN log_event(evs, timestamp, event_type, NoTrain, vs[n].block_id,
                                    message, severity)
                     ELSE evs,
                     vs, n + 1, timestamp, event_type, message, severity)

\* KPIs that start with one train counted as completed
EnhancedKPIsOneCompleted(total_trains) ==
    [total_trains |-> total_trains, completed_trains |-> 1, active_trains |-> 0,
     total_delay_min |-> 0, max_delay_min |-> 0,
     section_utilization |-> [num |-> 0, den |-> 1],
     throughput |-> [num |-> 0, den |-> 1],
     on_time_performance |-> [num |-> 0, den |-> 1],
     safety_score |-> 100,
     total_distance_km |-> 0,
     avg_speed_kmph |-> [num |-> 0, den |-> 1]]

\* EnhancedKPIs(total_trains=len(trains)); the ratios computed at the end are
\* kept as numerator and denominator
EnhancedKPIs(total_trains) ==
    [total_trains |-> total_trains, completed_trains |-> 0, active_trains |-> 0,
     total_delay_min |-> 0, max_delay_min |-> 0,
     section_utilization |-> [num |-> 0, den |-> 1],
     throughput |-> [num |-> 0, den |-> 1],
     on_time_performance |-> [num |-> 0, den |-> 1],
     safety_score |-> 100,
     total_distance_km |-> 0,
     avg_speed_kmph |-> [num |-> 0, den |-> 1]]

(***************************************************************************)
(* Inputs of simulate: a fleet, a list of disruptions, and whether a       *)
(* realtime callback is given.                                             *)
(***************************************************************************)
\* (priority, dep_time_min) and profile of a train
SimChoices ==
    { << <<1, 1>>, [route |-> <<"B1", "B2", "B3">>, max_speed_kmph |-> 100, dwell_min |-> 2,
                    direction |-> "up"] >>,
      << <<1, 1>>, [route |-> <<"B1">>, max_speed_kmph |-> 100, dwell_min |-> 2,
                    direction |-> "up"] >>,
      << <<1, 0>>, [route |-> <<"B1">>, max_speed_kmph |-> 100, dwell_min |-> 2,
                    direction |-> "up"] >>,
      << <<1, 1>>, [route |-> <<"B1", "B2">>, max_speed_kmph |-> 100, dwell_min |-> 2,
                    direction |-> "up"] >>,
      << <<2, 2>>, [route |-> <<"B2", "B1">>, max_speed_kmph |-> 60, dwell_min |-> 0,
                    direction |-> "down"] >> }

SimFleets ==
    UNION { { [i \in 1..n |-> MakeTrain(i, c[i][1], c[i][2])] :
              c \in [1..n -> SimChoices] } : n \in 0..MaxTrains }

\* the disruption lists: none, a delay of the first train after or before it
\* has left, two delays of it, a delay of a train that does not exist, a
\* block failure, a delay at minute 3.5; a time is a ratio num/den
SimDisruptions ==
    { <<>>,
      << [time |-> [num |-> 8, den |-> 1], type |-> "train_delay", train_id |-> 1,
         delay_min |-> 20] >>,
      << [time |-> [num |-> 3, den |-> 1], type |-> "train_delay", train_id |-> 1,
         delay_min |-> 5] >>,
      << [time |-> [num |-> 8, den |-> 1], type |-> "train_delay", train_id |-> 1,
         delay_min |-> 20],
         [time |-> [num |-> 14, den |-> 1], type |-> "train_delay", train_id |-> 1,
         delay_min |-> 5] >>,
      << [time |-> [num |-> 3, den |-> 1], type |-> "train_delay", train_id |-> 9,
         delay_min |-> 5] >>,
      << [time |-> [num |-> 3, den |-> 1], type |-> "block_failure", train_id |-> NoTrain,
          delay_min |-> 0] >>,
      << [time |-> [num |-> 7, den |-> 2], type |-> "train_delay", train_id |-> 1,
          delay_min |-> 5] >> }

InitSim ==
    /\ headway_min = 3
    /\ trains \in SimFleets
    /\ schedule = None
    /\ status = "none"
    /\ current_time = None
    /\ prev_time = None
    /\ calls = 0
    /\ validated = FALSE
    /\ violations = <<>>
    /\ is_safe = TRUE
    /\ clearance = <<>>
    /\ crossing = <<>>
    /\ phase = "idle"
    /\ cursor = 0
    /\ train_states = <<>>
    /\ sim_block_occupancy = <<>>
    /\ events = <<>>
    /\ kpis = <<>>
    /\ block_busy_time = <<>>
    /\ train_distances = <<>>
    /\ train_times = <<>>
    /\ disruptions \in SimDisruptions
    /\ realtime_callback \in BOOLEAN
    /\ sim_current_time = 0
    /\ original_dep = <<>>
    /\ observed = <<>>

\* simulate, from its first line to the head of the while loop
StartSimulation ==
    /\ phase = "idle"
    /\ LET r == optimize(trains, 0)
           v == validate_schedule(r.entries, trains)
           checked == IF ~v.is_safe
                      THEN LogCritical(<<>>, v.violations, 1, 0, "ERROR", "violation",
                                       "CRITICAL")
                      ELSE log_event(<<>>, 0, "SYSTEM", NoTrain, None,
                                     "Schedule validated", "INFO")
       IN /\ schedule' = r.entries
          /\ status' = "returned"
          /\ is_safe' = v.is_safe
          /\ violations' = v.violations
          /\ events' = log_event(checked, 0, "SYSTEM", NoTrain, None,
                                 "Enhanced simulation started", "INFO")
    /\ validated' = TRUE
    /\ current_time' = 0
    /\ prev_time' = current_time
    /\ calls' = Min(calls + 1, 2)
    /\ train_states' = [i \in 1..Len(trains) |-> TrainState(trains[i])]
    /\ sim_block_occupancy' = [b \in DOMAIN block_map |-> NoTrain]
    /\ kpis' = EnhancedKPIs(Len(trains))
    /\ block_busy_time' = [b \in DOMAIN block_map |-> 0]
    /\ train_distances' = [i \in 1..Len(trains) |-> 0]
    /\ train_times' = [i \in 1..Len(trains) |-> 0]
    /\ sim_current_time' = 0
    /\ phase' = "loop"
    /\ cursor' = 0
    /\ original_dep' = [i \in 1..Len(trains) |-> trains[i].dep_time_min]
    /\ observed' = <<>>
    /\ UNCHANGED <<headway_min, trains, clearance, crossing, disruptions, realtime_callback>>

\* self._apply_disruption(disruption, train_states): a train_delay moves the
\* departure time of the Train object itself, which the trains list shares
apply_disruption(disruption, ts) ==
    IF disruption.type = "train_delay"
    THEN [i \in 1..Len(ts) |->
             IF ts[i].id = disruption.train_id
             THEN [ts[i] EXCEPT !.dep_time_min = @ + disruption.delay_min]
             ELSE ts[i]]
    ELSE ts

\* active_trains = [ts.train for ts in train_states.values() if not ts.finished]
RECURSIVE ActiveTrains(_, _, _)
ActiveTrains(ts, states, i) ==
    IF i > Len(ts) THEN <<>>
    ELSE (IF states[i].finished THEN <<>> ELSE <<ts[i]>>) \o ActiveTrains(ts, states, i + 1)

\* abs(disruption['time'] - self.current_time) < self.time_step
disruption_due(disruption, now) ==
    Abs(disruption.time.num - now * disruption.time.den) < TimeStep * disruption.time.den

\* a disruption handler that re-plans every train of the run, finished or not
HandleDisruptionAllTrains(acc, disruption, states, now) ==
    IF disruption_due(disruption, now)
    THEN LET ts == apply_disruption(disruption, acc.trains)
             r == optimize(ts, now)
             v == validate_schedule(r.entries, ts)
         IN [trains |-> ts,
             schedule |-> r.entries,
             is_safe |-> v.is_safe,
             events |-> log_event(acc.events, now, "DISRUPTION", disruption.train_id, None,
                                  "Disruption", "WARNING"),
             calls |-> Min(acc.calls + 1, 2),
             current_time |-> now,
             prev_time |-> acc.current_time]
    ELSE acc

\* the body of `for disruption in disruptions` for one disruption
HandleDisruption(acc, disruption, states, now) ==
    IF disruption_due(disruption, now)
    THEN LET ts == apply_disruption(disruption, acc.trains)
             logged == log_event(acc.events, now, "DISRUPTION", disruption.train_id, None,
                                 "Disruption", "WARNING")
             active_trains == ActiveTrains(ts, states, 1)
         IN IF active_trains # <<>>
            THEN LET r == optimize(active_trains, now)
                     v == validate_schedule(r.entries, active_trains)
                 IN [trains |-> ts,
                     schedule |-> r.entries,
                     is_safe |-> v.is_safe,
                     events |-> IF ~v.is_safe
                                THEN LogCritical(logged, v.violations, 1, now, "WARNING",
                                                 "Post-disruption", "WARNING")
                                ELSE logged,
                     calls |-> Min(acc.calls + 1, 2),
                     current_time |-> now,
                     prev_time |-> acc.current_time]
            ELSE [acc EXCEPT !.trains = ts, !.events = logged]
    ELSE acc

RECURSIVE HandleDisruptions(_, _, _, _, _)
HandleDisruptions(acc, ds, k, states, now) ==
    IF k > Len(ds) THEN acc
    ELSE HandleDisruptions(HandleDisruption(acc, ds[k], states, now), ds, k + 1, states, now)

\* the head of the while loop: the loop test, the disruptions that are due
\* and the count of active trains
BeginTick ==
    /\ phase = "loop"
    /\ sim_current_time <= MaxTime
    /\ LET acc == HandleDisruptions([trains |-> trains, schedule |-> schedule,
                                     is_safe |-> is_safe, events |-> events,
                                     calls |-> calls, current_time |-> current_time,
                                     prev_time |-> prev_time],
                                    disruptions, 1, train_states, sim_current_time)
       IN /\ trains' = acc.trains
          /\ schedule' = acc.schedule
          /\ is_safe' = acc.is_safe
          /\ events' = acc.events
          /\ calls' = acc.calls
          /\ current_time' = acc.current_time
          /\ prev_time' = acc.prev_time
    /\ kpis' = [kpis EXCEPT !.active_trains =
                   Cardinality({ i \in 1..Len(train_states) :
                                   ~train_states[i].finished
                                   /\ train_states[i].location # None })]
    /\ phase' = "trains"
    /\ cursor' = 1
    /\ UNCHANGED <<headway_min, status, validated, violations, clearance, crossing, train_states,
                   sim_block_occupancy, block_busy_time, train_distances, train_times,
                   disruptions, realtime_callback, sim_current_time, original_dep,
                   observed>>

\* `if scheduled_entry and self.current_time >= scheduled_entry`: None and 0
\* are both falsy
entry_due(entries, train_id, block_id, now) ==
    /\ has_entry(entries, train_id, block_id)
    /\ get_entry(entries, train_id, block_id) # 0
    /\ now >= get_entry(entries, train_id, block_id)

\* a test of the target block that finds it free whoever is recorded in it
block_free_always(occ, block_id) == TRUE

\* `if block_occupancy[block_id] is None`
block_free(occ, block_id) == occ[block_id] = NoTrain

\* self._is_crossing_point(block_id, train_states)
is_crossing_point(block_id, ts, states) ==
    Cardinality({ i \in 1..Len(states) : ~states[i].finished /\ InRoute(block_id, ts[i]) }) > 1

\* sum of travel and dwell over the route
RECURSIVE RouteTime(_, _)
RouteTime(train, i) ==
    IF i > Len(train.route) THEN 0
    ELSE TravelTime(train, block_map[train.route[i]])
         + DwellTime(train, block_map[train.route[i]]) + RouteTime(train, i + 1)

\* the branch `if state.route_index == 0 and self.current_time >= train.dep_time_min`
\* st = [state, occ, events, kpis, distances, times] of the train with id
\* train_id
WaitingToDepart(st, train, train_id, entries, ts, now) ==
    LET first_block == train.route[1] IN
    IF entry_due(entries, train_id, first_block, now)
    THEN IF verify_block_clearance(first_block, now, entries, ts, 1)
         THEN IF block_free(st.occ, first_block)
              THEN [st EXCEPT
                       !.occ = [st.occ EXCEPT ![first_block] = train_id],
                       !.state = [st.state EXCEPT !.location = first_block,
                                                  !.time_min = now],
                       !.events = log_event(st.events, now, "DEPARTURE", train_id,
                                            first_block, "departed", "INFO")]
              ELSE st
         ELSE [st EXCEPT !.events = log_event(st.events, now, "WARNING", train_id,
                                              first_block, "Safety hold", "WARNING")]
    ELSE st

\* the body of `if state.route_index < len(train.route)` after the exit:
\* the entry into the next block
EnterNext(st, train, train_id, entries, ts, states, now) ==
    LET next_block == train.route[st.state.route_index + 1] IN
    IF entry_due(entries, train_id, next_block, now)
    THEN IF verify_block_clearance(next_block, now, entries, ts, 1)
         THEN IF block_free(st.occ, next_block)
              THEN [st EXCEPT
                       !.occ = [st.occ EXCEPT ![next_block] = train_id],
                       !.state = [st.state EXCEPT !.location = next_block,
                                                  !.time_min = now],
                       !.events = IF is_crossing_point(next_block, ts, states)
                                  THEN log_event(st.events, now, "CROSSING", train_id,
                                                 next_block, "crossing", "INFO")
                                  ELSE st.events]
              ELSE st
         ELSE [st EXCEPT !.events = log_event(st.events, now, "WARNING", train_id,
                                              next_block, "Safety hold", "WARNING")]
    ELSE st

\* a completion that keeps the train located in its last block and counts it
\* without marking it finished
CompleteStaying(st, train, train_id, now) ==
    [st EXCEPT
        !.kpis = [st.kpis EXCEPT !.completed_trains = @ + 1],
        !.events = log_event(st.events, now, "COMPLETION", train_id, None,
                             "completed journey", "INFO")]

\* the else branch: "Train completed"
Complete(st, train, train_id, now) ==
    LET scheduled_completion == RouteTime(train, 1) + train.dep_time_min
        delay == Max(0, now - scheduled_completion)
    IN [st EXCEPT
           !.state = [st.state EXCEPT !.finished = TRUE, !.location = None,
                                      !.delay_min = delay],
           !.kpis = [st.kpis EXCEPT !.completed_trains = @ + 1,
                                    !.total_delay_min = @ + delay,
                                    !.max_delay_min = Max(@, delay)],
           !.events = log_event(st.events, now, "COMPLETION", train_id, None,
                                "completed journey",
                                IF delay < 5 THEN "INFO" ELSE "WARNING")]

\* the simulator's own time in a block:
\* travel_time = (length_km / min(speeds)) * 60; dwell_time = dwell if station
\* else 0; total_time = travel_time + dwell_time
sim_total_time(train, block) ==
    (block.length_km * 60) \div Min(train.max_speed_kmph, block.max_speed_kmph)
    + (IF HasStation(block) THEN train.dwell_min ELSE 0)

\* the branch `elif state.location`
InTransit(st, train, train_id, entries, ts, states, now) ==
    LET current_block_id == st.state.location
        block == block_map[current_block_id]
        tracked == [st EXCEPT
                       !.distances = [st.distances EXCEPT ![train_id] =
                                         @ + Min(train.max_speed_kmph, block.max_speed_kmph)
                                             * TimeStep],
                       !.times = [st.times EXCEPT ![train_id] = @ + TimeStep]]
        total_time == sim_total_time(train, block)
    IN IF now >= st.state.time_min + total_time
       THEN LET cleared == [tracked.occ EXCEPT ![current_block_id] = NoTrain]
                arrived == IF HasStation(block)
                           THEN log_event(tracked.events, now, "ARRIVAL", train_id,
                                          current_block_id, "arrived at station", "INFO")
                           ELSE tracked.events
                moved == [tracked EXCEPT
                             !.occ = cleared,
                             !.events = arrived,
                             !.state = [tracked.state EXCEPT !.route_index = @ + 1]]
            IN IF moved.state.route_index < Len(train.route)
               THEN EnterNext(moved, train, train_id, entries, ts,
                              [states EXCEPT ![train_id] = moved.state], now)
               ELSE Complete(moved, train, train_id, now)
       ELSE tracked

\* the body of `for train_id, state in train_states.items()` for one train
advance_train(st, train, train_id, entries, ts, states, now) ==
    IF st.state.finished THEN st
    ELSE IF st.state.route_index = 0 /\ now >= train.dep_time_min
         THEN WaitingToDepart(st, train, train_id, entries, ts, now)
         ELSE IF st.state.location # None
              THEN InTransit(st, train, train_id, entries, ts, states, now)
              ELSE st

\* one pass of the per-train loop: the train at the cursor
AdvanceTrain ==
    /\ phase = "trains"
    /\ cursor <= Len(train_states)
    /\ LET st == advance_train([state |-> train_states[cursor],
                                occ |-> sim_block_occupancy,
                                events |-> events, kpis |-> kpis,
                                distances |-> train_distances, times |-> train_times],
                               trains[cursor], cursor, schedule, trains, train_states,
                               sim_current_time)
       IN /\ train_states' = [train_states EXCEPT ![cursor] = st.state]
          /\ sim_block_occupancy' = st.occ
          /\ events' = st.events
          /\ kpis' = st.kpis
          /\ train_distances' = st.distances
          /\ train_times' = st.times
    /\ cursor' = cursor + 1
    /\ UNCHANGED <<headway_min, trains, schedule, status, current_time, prev_time, calls,
                   validated, violations, is_safe, clearance, crossing, phase, block_busy_time,
                   disruptions, realtime_callback, sim_current_time, original_dep,
                   observed>>

\* sum(d.values()) of a dict keyed by the positions 1..n
RECURSIVE SumValues(_, _)
SumValues(d, i) == IF i > Len(d) THEN 0 ELSE d[i] + SumValues(d, i + 1)

\* sum(block_busy_time.values())
RECURSIVE SumBusy(_, _)
SumBusy(busy, i) == IF i > Len(Blocks) THEN 0 ELSE busy[Blocks[i].id] + SumBusy(busy, i + 1)

\* a count of every event, whatever its severity
CountAll(evs, severity) ==
    Len(evs)

\* sum(1 for e in self.events if e.severity == severity)
CountSeverity(evs, severity) ==
    Cardinality({ i \in 1..Len(evs) : evs[i].severity = severity })

\* a busy time that grows for every block, occupied or not
busy_after_all(busy, occ) ==
    [b \in DOMAIN busy |-> busy[b] + TimeStep]

\* for block_id, occupant in block_occupancy.items():
\*     if occupant is not None: block_busy_time[block_id] += self.time_step
busy_after(busy, occ) ==
    [b \in DOMAIN busy |-> IF occ[b] # NoTrain THEN busy[b] + TimeStep ELSE busy[b]]

\* self.events[-10:], the list handed to the realtime callback
recent_events(evs) ==
    SubSeq(evs, Max(1, Len(evs) - 9), Len(evs))

\* a callback told the time of the next tick
callback_args_next_tick(now, states, k, evs) ==
    [current_time |-> now + TimeStep, train_states |-> states, kpis |-> k,
     events |-> recent_events(evs)]

\* the arguments of realtime_callback(self.current_time, train_states, kpis,
\* self.events[-10:])
callback_args(now, states, k, evs) ==
    [current_time |-> now, train_states |-> states, kpis |-> k,
     events |-> recent_events(evs)]

\* What an observer may do to the objects it is handed.
ObserverWrites ==
    {"none", "finish_train", "zero_score", "raise_severity", "append_event"}

\* the handed objects as the observer leaves them
observer_write(write, args) ==
    CASE write = "finish_train" /\ Len(args.train_states) >= 1 ->
             [args EXCEPT !.train_states[1].finished = TRUE]
      [] write = "zero_score" ->
             [args EXCEPT !.kpis.safety_score = 0]
      [] write = "raise_severity" /\ Len(args.events) >= 1 ->
             [args EXCEPT !.events[Len(args.events)].severity = "CRITICAL"]
      [] write = "append_event" ->
             [args EXCEPT !.events = Append(@, Event(args.current_time, "SYSTEM", NoTrain,
                                                     None, "observer note", "INFO"))]
      [] OTHER -> args

\* self.events after the call: the slice is a new list, its Event objects are
\* the log's own
shared_events(evs, handed, left) ==
    [i \in 1..Len(evs) |->
        IF i > Len(evs) - Len(handed) THEN left[i - (Len(evs) - Len(handed))] ELSE evs[i]]

\* the end of a pass of the while loop: block utilization, the realtime
\* callback every 10 minutes with its continue/stop answer, the clock; the
\* callback is handed train_states and kpis themselves, so what it writes to
\* them is the engine's state after the call
EndTickWith(write) ==
    /\ phase = "trains"
    /\ cursor > Len(train_states)
    /\ block_busy_time' = busy_after(block_busy_time, sim_block_occupancy)
    /\ IF realtime_callback /\ (sim_current_time * 2) % 20 = 0
       THEN LET args == callback_args(sim_current_time, train_states, kpis, events)
                left == observer_write(write, args)
                evs  == shared_events(events, args.events, left.events)
            IN  /\ observed' = <<args>>
                /\ train_states' = left.train_states
                /\ kpis' = left.kpis
                /\ \E should_continue \in BOOLEAN :
                       IF should_continue
                       THEN /\ sim_current_time' = sim_current_time + TimeStep
                            /\ phase' = "loop"
                            /\ events' = evs
                       ELSE /\ events' = log_event(evs, sim_current_time, "SYSTEM",
                                                   NoTrain, None,
                                                   "Simulation stopped by user request",
                                                   "INFO")
                            /\ phase' = "stopped"
                            /\ UNCHANGED sim_current_time
       ELSE /\ write = "none"
            /\ sim_current_time' = sim_current_time + TimeStep
            /\ phase' = "loop"
            /\ UNCHANGED <<observed, train_states, kpis, events>>
    /\ UNCHANGED <<headway_min, trains, schedule, status, current_time, prev_time, calls,
                   validated, violations, is_safe, clearance, crossing, cursor,
                   sim_block_occupancy, train_distances, train_times, disruptions,
                   realtime_callback, original_dep>>

\* a pass ending with an observer that only reads what it is handed
EndTick ==
    EndTickWith("none")

\* after the while loop: the final KPIs, the completion event, the return
Finalize ==
    /\ \/ phase = "loop" /\ sim_current_time > MaxTime
       \/ phase = "stopped"
    /\ LET total_block_time == Len(Blocks) * MaxTime
           total_busy_time == SumBusy(block_busy_time, 1)
           on_time_count == Cardinality({ i \in 1..Len(train_states) :
                                            train_states[i].finished
                                            /\ train_states[i].delay_min < 5 })
           total_distance == SumValues(train_distances, 1)
           total_time == SumValues(train_times, 1)
           critical_events == CountSeverity(events, "CRITICAL")
           warning_events == CountSeverity(events, "WARNING")
       IN kpis' = [kpis EXCEPT
                      !.section_utilization =
                          IF total_block_time > 0
                          THEN [num |-> total_busy_time * 100, den |-> total_block_time]
                          ELSE [num |-> 0, den |-> 1],
                      !.throughput =
                          IF MaxTime > 0
                          THEN [num |-> kpis.completed_trains * 60, den |-> MaxTime]
                          ELSE [num |-> 0, den |-> 1],
                      !.on_time_performance =
                          IF kpis.completed_trains > 0
                          THEN [num |-> on_time_count * 100, den |-> kpis.completed_trains]
                          ELSE [num |-> 0, den |-> 1],
                      !.total_distance_km = total_distance,
                      !.avg_speed_kmph =
                          IF total_time > 0
                          THEN [num |-> total_distance * 60, den |-> total_time]
                          ELSE [num |-> 0, den |-> 1],
                      !.safety_score =
                          Max(0, 100 - critical_events * 20 - warning_events * 5)]
    /\ events' = log_event(events, sim_current_time, "SYSTEM", NoTrain, None,
                           "Simulation completed", "INFO")
    /\ phase' = "returned"
    /\ UNCHANGED <<headway_min, trains, schedule, status, current_time, prev_time, calls,
                   validated, violations, is_safe, clearance, crossing, cursor, train_states,
                   sim_block_occupancy, block_busy_time, train_distances, train_times,
                   disruptions, realtime_callback, sim_current_time, original_dep,
                   observed>>

NextSim ==
    \/ StartSimulation
    \/ BeginTick
    \/ AdvanceTrain
    \/ EndTick
    \/ Finalize

SpecSim == InitSim /\ [][NextSim]_vars

(***************************************************************************)
(* Properties of the simulation.  A step of the per-train loop is a step   *)
(* that handles the train at the cursor; the gate is restated here on the  *)
(* schedule in force, the recomputed windows and the occupancy map.        *)
(***************************************************************************)
\* this step is the per-train step of train k
StepOf(k) == phase = "trains" /\ cursor = k /\ cursor' = k + 1

\* the simulation is at a tick boundary (or over)
AtTickBoundary == phase \in {"loop", "stopped", "returned"}

\* travel + dwell of train k on block b
TotalTime(k, b) == TravelTime(trains[k], block_map[b]) + DwellTime(trains[k], block_map[b])

\* train k is due to enter its first block: it has not entered any block and
\* the clock has reached its departure time
DueToDepart(k) ==
    /\ ~train_states[k].finished
    /\ train_states[k].location = None
    /\ train_states[k].route_index = 0
    /\ sim_current_time >= trains[k].dep_time_min

\* train k has spent travel + dwell in its block, which is not its last
DueToMoveOn(k) ==
    /\ ~train_states[k].finished
    /\ train_states[k].location # None
    /\ sim_current_time >= train_states[k].time_min + TotalTime(k, train_states[k].location)
    /\ \E i \in 1..(Len(trains[k].route) - 1) : trains[k].route[i] = train_states[k].location

\* the block the train attempts to enter
Target(k) ==
    IF train_states[k].location = None THEN trains[k].route[1]
    ELSE trains[k].route[1 + CHOOSE i \in 1..(Len(trains[k].route) - 1) :
                                 trains[k].route[i] = train_states[k].location]

\* the three gate conditions for train k and block b at the clock
ScheduledEntryReached(k, b) ==
    /\ has_entry(schedule, k, b)
    /\ sim_current_time >= get_entry(schedule, k, b)

ClearanceHolds(b) == ~WindowContains(b, sim_current_time)

Unoccupied(b) == sim_block_occupancy[b] = NoTrain

GateOpen(k, b) == ScheduledEntryReached(k, b) /\ ClearanceHolds(b) /\ Unoccupied(b)

\* C15: no double occupancy in simulation: at every tick boundary of a run,
\* with or without disruptions, no two unfinished trains are located in the
\* same block.
C15_NoDoubleOccupancy ==
    AtTickBoundary =>
        \A i, j \in 1..Len(train_states) :
            ( /\ i # j
              /\ ~train_states[i].finished /\ ~train_states[j].finished
              /\ train_states[i].location # None )
            => train_states[i].location # train_states[j].location

\* train k enters a block in this step: it is located in a block after the
\* step, and the block or the entry clock is new
Enters(k) ==
    /\ StepOf(k)
    /\ train_states'[k].location # None
    /\ \/ train_states'[k].location # train_states[k].location
       \/ train_states'[k].time_min # train_states[k].time_min

\* C16: entry gate: whenever a train enters a block, first or later, at that
\* tick the clock has reached the scheduled entry for the block in the
\* schedule in force, no recomputed window of the schedule on the block
\* contains the clock, and the block has no recorded occupant; for the first
\* block the clock has also reached the train's departure time.
C16_EntryGate ==
    [][ \A k \in 1..Len(train_states) :
          Enters(k) =>
              /\ GateOpen(k, train_states'[k].location)
              /\ train_states[k].route_index = 0
                     => sim_current_time >= trains[k].dep_time_min ]_vars

\* a train has just entered its first block: the per-train loop has passed
\* it, it is recorded as the occupant, and its entry clock is the clock
C16_Witness ==
    /\ phase = "trains"
    /\ \E k \in 1..Len(train_states) :
           /\ cursor = k + 1
           /\ train_states[k].location = trains[k].route[1]
           /\ train_states[k].time_min = sim_current_time
           /\ sim_block_occupancy[trains[k].route[1]] = k
           /\ sim_current_time >= get_entry(schedule, k, trains[k].route[1])
           /\ sim_current_time >= trains[k].dep_time_min

\* train k attempts an entry in this step and a gate condition fails
Refused(k) ==
    /\ StepOf(k)
    /\ DueToDepart(k) \/ DueToMoveOn(k)
    /\ ~GateOpen(k, Target(k))

\* C17: a hold leaves the state unchanged: when a gate condition fails for a
\* train at a tick, its route index, location and entry clock and the
\* block-occupancy map are the same after the step as before it.
C17_HoldUnchanged ==
    [][ \A k \in 1..Len(train_states) :
          Refused(k) =>
              /\ train_states'[k].route_index = train_states[k].route_index
              /\ train_states'[k].location = train_states[k].location
              /\ train_states'[k].time_min = train_states[k].time_min
              /\ sim_block_occupancy' = sim_block_occupancy ]_vars

\* the hold warning of train k for block b at the clock
HoldWarning(e, k, b) ==
    /\ e.event_type = "WARNING"
    /\ e.severity = "WARNING"
    /\ e.train_id = k
    /\ e.block_id = b
    /\ e.timestamp = sim_current_time

\* C18: every hold is recorded: at each tick at which a train that is due to
\* enter a block is refused because a gate condition fails, a WARNING event
\* for the train and the block is appended to the log; and no WARNING is
\* logged for a train that is not attempting an entry.  Stated for trains
\* whose scheduled entry for the block is not 0.
C18_HoldsRecorded ==
    [][ \A k \in 1..Len(train_states) :
          /\ ( /\ Refused(k)
               /\ has_entry(schedule, k, Target(k)) /\ get_entry(schedule, k, Target(k)) # 0 )
             => /\ Len(events') = Len(events) + 1
                /\ HoldWarning(events'[Len(events')], k, Target(k))
          /\ ( /\ StepOf(k)
               /\ Len(events') > Len(events)
               /\ events'[Len(events')].event_type = "WARNING" )
             => (DueToDepart(k) \/ DueToMoveOn(k)) ]_vars

\* C19: a block is vacated once the clock has reached entry + travel + dwell
\* of its occupant: in the per-train step of the occupant at a tick where
\* that holds, first block of the route included, the recorded occupant of
\* the block is cleared.
C19_VacatedWhenDone ==
    [][ \A k \in 1..Len(train_states) :
          ( /\ StepOf(k)
            /\ ~train_states[k].finished
            /\ train_states[k].location # None
            /\ sim_block_occupancy[train_states[k].location] = k
            /\ sim_current_time >=
                   train_states[k].time_min + TotalTime(k, train_states[k].location) )
          => sim_block_occupancy'[train_states[k].location] # k ]_vars

\* C20: per-train state machine order: the location of a train only moves
\* from none to the first block of its route and from route[i] to
\* route[i+1], and a train becomes finished only from the last block of its
\* route, so only after it has been located in every block, in order.
C20_RouteOrder ==
    [][ \A k \in 1..Len(train_states) :
          StepOf(k) =>
              /\ ( /\ train_states'[k].location # train_states[k].location
                   /\ train_states'[k].location # None )
                 => \/ /\ train_states[k].location = None
                       /\ train_states'[k].location = trains[k].route[1]
                    \/ \E i \in 1..(Len(trains[k].route) - 1) :
                           /\ train_states[k].location = trains[k].route[i]
                           /\ train_states'[k].location = trains[k].route[i + 1]
              /\ (train_states'[k].finished /\ ~train_states[k].finished)
                 => train_states[k].location = trains[k].route[Len(trains[k].route)] ]_vars

\* train k completes in this step
Completes(k) == StepOf(k) /\ train_states'[k].finished /\ ~train_states[k].finished

\* C21: when a train completes, its delay is max(0, completion clock - ideal),
\* where ideal is the sum of travel + dwell over its route plus the departure
\* time the train had when the run started, before any train_delay
\* disruption; the delay is never negative.
C21_DelayFromOriginalDeparture ==
    [][ \A k \in 1..Len(train_states) :
          Completes(k) =>
              /\ train_states'[k].delay_min =
                     Max(0, sim_current_time - (RouteTime(trains[k], 1) + original_dep[k]))
              /\ train_states'[k].delay_min >= 0 ]_vars

(***************************************************************************)
(* Properties of the disruption handling.  A disruption is due at the tick *)
(* whose clock is less than a time step away from its time; the step that  *)
(* applies it is the step from the head of the loop to the per-train loop. *)
(***************************************************************************)
Due(d) == Abs(d.time.num - sim_current_time * d.time.den) < TimeStep * d.time.den

\* this step is the head of a pass of the while loop
HeadOfTick == phase = "loop" /\ phase' = "trains"

\* the ids of the trains that are not finished
Unfinished == { k \in 1..Len(train_states) : ~train_states[k].finished }

\* the trains of ts that are not finished, in list order
RECURSIVE UnfinishedTrains(_, _)
UnfinishedTrains(ts, i) ==
    IF i > Len(ts) THEN <<>>
    ELSE (IF i \in Unfinished THEN <<ts[i]>> ELSE <<>>) \o UnfinishedTrains(ts, i + 1)

\* the delay the disruptions due now add to train k
RECURSIVE DueDelay(_, _)
DueDelay(k, n) ==
    IF n > Len(disruptions) THEN 0
    ELSE (IF Due(disruptions[n]) /\ disruptions[n].type = "train_delay"
             /\ disruptions[n].train_id = k
          THEN disruptions[n].delay_min ELSE 0) + DueDelay(k, n + 1)

\* a train_delay of a train of the run is due
DelayDue ==
    \E n \in 1..Len(disruptions) :
        /\ Due(disruptions[n])
        /\ disruptions[n].type = "train_delay"
        /\ disruptions[n].train_id \in 1..Len(trains)

\* the departure times have moved by the due delays and the schedule in force
\* is optimize over exactly the unfinished trains with the clock as floor
Replanned ==
    /\ \A k \in 1..Len(trains) :
           trains'[k].dep_time_min = trains[k].dep_time_min + DueDelay(k, 1)
    /\ schedule' = optimize(UnfinishedTrains(trains', 1), sim_current_time).entries
    /\ DOMAIN schedule' = Unfinished
    /\ \A k \in DOMAIN schedule' : \A b \in DOMAIN schedule'[k] :
           schedule'[k][b] >= sim_current_time

\* C22 as stated: after a train_delay disruption is applied at clock c, the
\* train's departure time has increased by the delta and the schedule in
\* force is optimize over exactly the unfinished trains with floor c, with no
\* entry for a finished train and every entry >= c.
C22_AsStated ==
    [][ (HeadOfTick /\ DelayDue) => Replanned ]_vars

\* C22: the same, when at least one train is unfinished at that tick (when
\* every train has finished the departure time still moves, no
\* re-optimization is made and the earlier schedule stays in force); the
\* schedule is not changed by any step of the per-train loop or at the end of
\* a tick.
C22_Reoptimized ==
    [][ /\ (HeadOfTick /\ DelayDue) =>
               IF Unfinished # {}
               THEN Replanned
               ELSE /\ \A k \in 1..Len(trains) :
                           trains'[k].dep_time_min = trains[k].dep_time_min + DueDelay(k, 1)
                    /\ schedule' = schedule
        /\ phase = "trains" => schedule' = schedule ]_vars

\* the second delay of train 1 has just been applied at clock 14, after
\* train 1 finished: the schedule in force has entries for train 2 only,
\* none before 14, and the departure of train 1 has moved by both delays
C22_Witness ==
    /\ phase = "trains"
    /\ cursor = 1
    /\ sim_current_time = 14
    /\ Len(disruptions) = 2
    /\ Len(trains) = 2
    /\ train_states[1].finished
    /\ ~train_states[2].finished
    /\ DOMAIN schedule = {2}
    /\ \A b \in DOMAIN schedule[2] : schedule[2][b] >= 14
    /\ trains[1].dep_time_min = original_dep[1] + 25

\* the run has started and is given disruptions, all of them of one type
OnlyDisruptions(type) ==
    /\ phase # "idle"
    /\ disruptions # <<>>
    /\ \A n \in 1..Len(disruptions) : disruptions[n].type = type

\* the schedule in force and the departure times are those of the same run
\* without disruptions, which keeps the schedule of its start to its end
AsWithoutDisruptions ==
    /\ \A k \in 1..Len(trains) : trains[k].dep_time_min = original_dep[k]
    /\ schedule = optimize(trains, 0).entries

\* C23: a block_failure disruption has no effect: a run given block_failure
\* disruptions has at every tick, and ends with, the schedule in force of
\* the identical run without them (and so the same train states and KPIs).
C23_BlockFailureNoEffect ==
    OnlyDisruptions("block_failure") => AsWithoutDisruptions

\* C24: a train_delay disruption naming a train that is not in the run is
\* ignored: no train's departure time changes and the run proceeds with the
\* schedule of the run without the disruption.
C24_UnknownTrainIgnored ==
    ( /\ OnlyDisruptions("train_delay")
      /\ \A n \in 1..Len(disruptions) : disruptions[n].train_id \notin 1..Len(trains) )
    => AsWithoutDisruptions

(***************************************************************************)
(* Properties of the event log and of the final KPIs.                      *)
(***************************************************************************)
\* the timestamps of a log do not decrease in log order
Monotone(evs) ==
    \A i, j \in 1..Len(evs) : i <= j => evs[i].timestamp <= evs[j].timestamp

\* the log contains an event of the type
Logged(type) == \E i \in 1..Len(events) : events[i].event_type = type

\* C25: the event log of a run is append-only and its timestamps are
\* non-decreasing in log order: every step keeps the events logged so far,
\* in place, and leaves a log with non-decreasing timestamps.
C25_LogAppendOnlyMonotone ==
    [][ /\ Len(events') >= Len(events)
        /\ SubSeq(events', 1, Len(events)) = events
        /\ Monotone(events') ]_vars

\* a finished run whose log holds a hold, a departure, a disruption, a
\* completion and the stop requested by the observer
C25_Witness ==
    /\ phase = "returned"
    /\ Logged("WARNING") /\ Logged("DEPARTURE") /\ Logged("DISRUPTION")
    /\ Logged("COMPLETION")
    /\ \E i \in 1..Len(events) : events[i].message = "Simulation stopped by user request"
    /\ events[Len(events)].message = "Simulation completed"

\* simulate has returned from a run with zero trains and no disruptions
EmptyRunReturned == phase = "returned" /\ trains = <<>> /\ disruptions = <<>>

\* completed = 0, utilization = 0, throughput = 0
ZeroKPIs ==
    /\ kpis.completed_trains = 0
    /\ kpis.section_utilization.num = 0
    /\ kpis.throughput.num = 0

SystemInfo(e, message) ==
    /\ e.event_type = "SYSTEM"
    /\ e.severity = "INFO"
    /\ e.message = message

\* C26 as stated: simulate with zero trains and no disruptions returns
\* completed = 0, utilization = 0, throughput = 0 and a log that holds only
\* a SYSTEM start event and a SYSTEM end event.
C26_AsStated ==
    EmptyRunReturned =>
        /\ ZeroKPIs
        /\ Len(events) = 2
        /\ SystemInfo(events[1], "Enhanced simulation started")
        /\ SystemInfo(events[2], "Simulation completed")

\* C26: simulate with zero trains and no disruptions returns completed = 0,
\* utilization = 0, throughput = 0 and a log that holds only SYSTEM events:
\* the result of the validation of the empty schedule, the start, the stop
\* if the observer asked for one, and the end.
C26_EmptyRun ==
    EmptyRunReturned =>
        /\ ZeroKPIs
        /\ Len(events) \in {3, 4}
        /\ SystemInfo(events[1], "Schedule validated")
        /\ SystemInfo(events[2], "Enhanced simulation started")
        /\ Len(events) = 4 => SystemInfo(events[3], "Simulation stopped by user request")
        /\ SystemInfo(events[Len(events)], "Simulation completed")

\* the empty run has run to max_time and returned with its three events
C26_Witness ==
    /\ EmptyRunReturned
    /\ sim_current_time > MaxTime
    /\ Len(events) = 3
    /\ ZeroKPIs


\* the realtime callback is invoked in this step
Observes ==
    observed' # observed

\* the per-train loop of the current tick has handled every train
AllAdvanced ==
    phase = "trains" /\ cursor > Len(train_states)

\* the observer has answered stop in this step, or had before it
StopAnswered ==
    phase' = "stopped" \/ phase = "stopped"

\* C27: the observer callback is invoked only at a tick boundary, after the
\* per-train loop of that tick has handled every train, and is told the
\* clock and the train states of that boundary; once it answers stop, no
\* train state and no block occupancy changes, and the only events appended
\* are the SYSTEM stop event, in the step of the answer, and the SYSTEM
\* completion event, in the step that returns.
C27_ObservedAtTickBoundary ==
    [][/\ Observes =>
            /\ AllAdvanced
            /\ phase' \in {"loop", "stopped"}
            /\ observed'[1].current_time = sim_current_time
            /\ observed'[1].train_states = train_states
       /\ StopAnswered =>
            /\ train_states' = train_states
            /\ sim_block_occupancy' = sim_block_occupancy
            /\ Len(events') = Len(events) + 1
            /\ SubSeq(events', 1, Len(events)) = events
            /\ SystemInfo(events'[Len(events')],
                          IF phase' = "stopped"
                          THEN "Simulation stopped by user request"
                          ELSE "Simulation completed")
            /\ phase = "stopped" => phase' = "returned"]_vars

\* a run stopped by the observer at minute 10 with a train inside a block
C27_Witness ==
    /\ phase = "returned"
    /\ observed # <<>>
    /\ observed[1].current_time = 10
    /\ \E b \in DOMAIN sim_block_occupancy : sim_block_occupancy[b] # NoTrain
    /\ Len(events) >= 2
    /\ events[Len(events) - 1].message = "Simulation stopped by user request"


(***************************************************************************)
(* Runs under an observer that may write to what it is handed: at most one *)
(* train, no disruptions, a callback at every tenth minute.                *)
(***************************************************************************)
ObsFleets == { fleet \in SimFleets : Len(fleet) <= 1 }

InitObs ==
    /\ InitSim
    /\ trains \in ObsFleets
    /\ disruptions = <<>>
    /\ realtime_callback

\* a pass ending with an observer that reads or writes what it is handed
EndTickObserved ==
    \E write \in ObserverWrites : EndTickWith(write)

NextObs ==
    \/ StartSimulation
    \/ BeginTick
    \/ AdvanceTrain
    \/ EndTickObserved
    \/ Finalize

SpecObs == InitObs /\ [][NextObs]_vars

\* C28: whatever the observer does to the train states, KPIs and events it
\* was handed, the engine's own train states, KPIs and the events it had
\* logged are the same after the callback as before it.
C28_ObserverGetsCopies ==
    [][Observes =>
          /\ train_states' = train_states
          /\ kpis' = kpis
          /\ SubSeq(events', 1, Len(events)) = events]_vars


(***************************************************************************)
(* The occupancy window of a planned entry, as each component computes it. *)
(***************************************************************************)
\* the validator's timeline of the schedule holds, for block b, the item
\* (entry, exit, train id)
InTimeline(b, entry, exit, id) ==
    LET tl == build_occupancy_timeline(schedule, trains)
    IN /\ b \in DOMAIN tl.at
       /\ \E i \in 1..Len(tl.at[b]) :
              tl.at[b][i] = [entry |-> entry, exit |-> exit, train_id |-> id]

\* verify_block_clearance, asked about train t alone with entry e on block b,
\* answers "occupied" at a time exactly when the time lies in [e, exit)
OccupiedExactly(t, b, e, exit) ==
    \A time \in (e - 1)..(exit + 1) :
        verify_block_clearance(b, time, (t.id :> (b :> e)), <<t>>, 1)
            = ~(e <= time /\ time < exit)

RECURSIVE SeverityUpTo(_, _)
SeverityUpTo(i, severity) ==
    IF i = 0 THEN 0
    ELSE SeverityUpTo(i - 1, severity) + (IF events[i].severity = severity THEN 1 ELSE 0)

\* 100 - 20 per CRITICAL event - 5 per WARNING event of the run's log
RawScore ==
    100 - 20 * SeverityUpTo(Len(events), "CRITICAL")
        - 5 * SeverityUpTo(Len(events), "WARNING")

\* C30: the safety score of a run that has returned is max(0, 100 - 20 x the
\* number of CRITICAL events - 5 x the number of WARNING events) of its event
\* log, and lies in [0, 100].
C30_SafetyScore ==
    phase = "returned" =>
        /\ kpis.safety_score = (IF RawScore < 0 THEN 0 ELSE RawScore)
        /\ kpis.safety_score \in 0..100

\* a run whose warnings take the raw score below zero, reported as 0
C30_Witness ==
    /\ phase = "returned"
    /\ RawScore < 0
    /\ kpis.safety_score = 0


(***************************************************************************)
(* The crossing specification: two trains and a meeting block, then        *)
(* handle_crossing calls with the trains in either order.                  *)
(***************************************************************************)
\* priorities of the two trains
CrossPriorities == {1, 2, 3}

CrossFleets ==
    { <<MakeTrain(1, <<p, d>>, f), MakeTrain(2, <<q, 0>>, g)>> :
        p \in CrossPriorities, q \in CrossPriorities, d \in {0, 5},
        f \in OptProfiles, g \in OptProfiles }

InitCross ==
    /\ headway_min = 3
    /\ trains \in CrossFleets
    /\ schedule = None
    /\ status = "none"
    /\ current_time = None
    /\ prev_time = None
    /\ calls = 0
    /\ validated = FALSE
    /\ violations = <<>>
    /\ is_safe = TRUE
    /\ clearance = <<>>
    /\ crossing = <<>>
    /\ NotSimulating

\* self.optimizer.handle_crossing(train1, train2, meeting_block)
HandleCrossing(i, j, meeting_block) ==
    /\ crossing' = << [train1 |-> i, train2 |-> j, meeting_block |-> meeting_block,
                       result |-> handle_crossing(trains[i], trains[j], meeting_block)] >>
    /\ UNCHANGED <<headway_min, trains, schedule, status, current_time, prev_time, calls,
                   validated, violations, is_safe, clearance, simvars>>

NextCross ==
    \E i \in 1..Len(trains), j \in 1..Len(trains), meeting_block \in DOMAIN block_map :
        i # j /\ HandleCrossing(i, j, meeting_block)

SpecCross == InitCross /\ [][NextCross]_vars

\* C31: handle_crossing returns (waiting id, proceeding id), the two trains
\* passed; the proceeding train's priority number is not higher than the
\* waiting train's, and for trains of different priority the same pair is
\* returned when the two trains are passed in the other order.
C31_CrossingByPriority ==
    crossing # <<>> =>
        LET c == crossing[1]
            waiting == c.result[1]
            proceeding == c.result[2]
        IN /\ {waiting, proceeding} = {c.train1, c.train2}
           /\ trains[proceeding].priority <= trains[waiting].priority
           /\ trains[c.train1].priority # trains[c.train2].priority =>
                  /\ trains[proceeding].priority < trains[waiting].priority
                  /\ handle_crossing(trains[c.train2], trains[c.train1], c.meeting_block)
                         = c.result

\* the lower-priority-number train was passed second and proceeds
C31_Witness ==
    /\ crossing # <<>>
    /\ trains[crossing[1].train2].priority < trains[crossing[1].train1].priority
    /\ crossing[1].result = <<crossing[1].train1, crossing[1].train2>>


\* the run went through every tick up to max_time, without disruptions
FullQuietRun ==
    /\ phase = "returned"
    /\ sim_current_time > MaxTime
    /\ disruptions = <<>>

\* max_time leaves train k its planned exit from the last block of its route
\* and the time of its whole route once more
TimeEnough(k) ==
    LET t == trains[k]
    IN ExitOf(schedule, t, t.route[Len(t.route)]) + RouteTime(t, 1) <= MaxTime

\* C32: eventual completion: in a run without disruptions whose max_time is
\* large enough for a train, the train has left every block of its route
\* and is finished when the run returns; it is neither still waiting to
\* depart nor still in its first block.
C32_EventualCompletion ==
    FullQuietRun =>
        \A k \in 1..Len(trains) :
            TimeEnough(k) =>
                /\ train_states[k].finished
                /\ \A b \in DOMAIN sim_block_occupancy : sim_block_occupancy[b] # k


\* a run of a single train without disruptions
SingleTrainQuiet ==
    /\ Len(trains) = 1
    /\ disruptions = <<>>

\* C33: on-schedule departure: in a run without disruptions of a single
\* train, at the first tick at which the train is due to depart and the
\* clock has reached its scheduled entry, the train enters its first block;
\* its own scheduled window does not hold it out.  (Entries at 0 are the
\* subject of C34 and are left out here.)
C33_OnScheduleDeparture ==
    [][ (/\ SingleTrainQuiet
         /\ StepOf(1)
         /\ DueToDepart(1)
         /\ ScheduledEntryReached(1, trains[1].route[1])
         /\ get_entry(schedule, 1, trains[1].route[1]) > 0)
        => /\ train_states'[1].location = trains[1].route[1]
           /\ sim_block_occupancy'[trains[1].route[1]] = 1 ]_vars


\* C34: a scheduled entry of exactly 0 is an entry time: a train that is due
\* to depart and whose scheduled entry for its first block is 0 enters the
\* block at a tick at which the block is clear and has no occupant, as a
\* train with a positive scheduled entry does.
C34_EntryAtZero ==
    [][ \A k \in 1..Len(train_states) :
          (/\ StepOf(k)
           /\ DueToDepart(k)
           /\ has_entry(schedule, k, trains[k].route[1])
           /\ get_entry(schedule, k, trains[k].route[1]) = 0
           /\ ClearanceHolds(trains[k].route[1])
           /\ Unoccupied(trains[k].route[1]))
          => /\ train_states'[k].location = trains[k].route[1]
             /\ sim_block_occupancy'[trains[k].route[1]] = k ]_vars


(***************************************************************************)
(* The scheduler and the validator with the rounding of float arithmetic.  *)
(* Times are Python floats: a sum or a difference is rounded to the        *)
(* nearest float.  Here a float has MantissaBits bits of mantissa (a       *)
(* double has 53), ties go to the even mantissa, and the inputs are whole  *)
(* numbers small enough to be floats themselves.                           *)
(***************************************************************************)
RECURSIVE Pow2(_)
Pow2(n) == IF n = 0 THEN 1 ELSE 2 * Pow2(n - 1)

\* the exponent of the float nearest to x >= 0
RECURSIVE Exponent(_, _)
Exponent(x, e) == IF x < Pow2(MantissaBits + e) THEN e ELSE Exponent(x, e + 1)

\* the float nearest to the non-negative number x, ties to even
round_magnitude(x) ==
    LET ulp == Pow2(Exponent(x, 0))
        lo == (x \div ulp) * ulp
        hi == lo + ulp
    IN IF x - lo < hi - x THEN lo
       ELSE IF x - lo > hi - x THEN hi
       ELSE IF (lo \div ulp) % 2 = 0 THEN lo ELSE hi

float_round(x) == IF x < 0 THEN 0 - round_magnitude(0 - x) ELSE round_magnitude(x)

\* a + b and a - b on floats
float_add(a, b) == float_round(a + b)
float_sub(a, b) == float_round(a - b)

\* exit_time = entry_time + travel_time + dwell_time, left to right
float_exit_time(train, block, entry_time) ==
    float_add(float_add(entry_time, TravelTime(train, block)), DwellTime(train, block))

\* for occ in block_occupancy[block_id]: if entry_time < occ_exit + headway: ...
RECURSIVE float_adjust_entry(_, _)
float_adjust_entry(entry_time, occs) ==
    IF occs = <<>> THEN entry_time
    ELSE float_adjust_entry(IF entry_time < float_add(Head(occs).exit, headway_min)
                            THEN float_add(Head(occs).exit, headway_min)
                            ELSE entry_time,
                            Tail(occs))

\* the body of `for block_id in train.route` (known blocks), from position i on
RECURSIVE float_schedule_route(_, _, _, _, _)
float_schedule_route(train, i, entry_time, train_schedule, block_occupancy) ==
    IF i > Len(train.route)
    THEN [train_schedule |-> train_schedule, block_occupancy |-> block_occupancy]
    ELSE LET block_id == train.route[i]
             block == block_map[block_id]
             entry == IF block_id \in DOMAIN block_occupancy
                      THEN float_adjust_entry(entry_time, block_occupancy[block_id])
                      ELSE entry_time
             exit_time == float_exit_time(train, block, entry)
             old == IF block_id \in DOMAIN block_occupancy
                    THEN block_occupancy[block_id] ELSE <<>>
             occ == (block_id :> Append(old, [entry |-> entry, exit |-> exit_time,
                                              train_id |-> train.id]))
                    @@ block_occupancy
         IN float_schedule_route(train, i + 1, NextEntry(entry, exit_time),
                                 (block_id :> entry) @@ train_schedule, occ)

\* the body of `for train in sorted_trains`, from position k on
RECURSIVE float_optimize_loop(_, _, _, _, _)
float_optimize_loop(sorted, k, entries, block_occupancy, now) ==
    IF k > Len(sorted) THEN entries
    ELSE LET r == float_schedule_route(sorted[k], 1, Max(sorted[k].dep_time_min, now),
                                       EmptyDict, block_occupancy)
         IN float_optimize_loop(sorted, k + 1,
                                set_entries(entries, sorted[k].id, r.train_schedule),
                                r.block_occupancy, now)

\* HeuristicOptimizer.optimize
float_optimize(ts, now) ==
    float_optimize_loop(sorted_trains(ts), 1, EmptyDict, EmptyDict, now)

\* CollisionDetector._build_occupancy_timeline
RECURSIVE float_build_timeline(_, _, _, _)
float_build_timeline(entries, visits, n, tl) ==
    IF n > Len(visits) THEN tl
    ELSE LET t == visits[n].train
             block_id == visits[n].block_id
         IN IF ~has_entry(entries, t.id, block_id)
            THEN float_build_timeline(entries, visits, n + 1, tl)
            ELSE LET entry_time == get_entry(entries, t.id, block_id)
                     item == [entry |-> entry_time,
                              exit |-> float_exit_time(t, block_map[block_id], entry_time),
                              train_id |-> t.id]
                 IN float_build_timeline(entries, visits, n + 1,
                                         TimelineAdd(tl, block_id, item))

\* if entry2 < exit1: overlap_time = exit1 - entry2; if overlap_time > 0: COLLISION_RISK
float_collision_check(first, second, block_id) ==
    IF second.entry < first.exit /\ float_sub(first.exit, second.entry) > 0
    THEN << SafetyViolation(first.train_id, second.train_id, block_id, second.entry,
                            "COLLISION_RISK", "critical") >>
    ELSE <<>>

\* headway = entry2 - exit1; if headway < headway_min and headway >= 0: INSUFFICIENT_HEADWAY
float_headway_check(first, second, block_id) ==
    LET headway == float_sub(second.entry, first.exit) IN
    IF headway < headway_min /\ headway >= 0
    THEN << SafetyViolation(first.train_id, second.train_id, block_id, second.entry,
                            "INSUFFICIENT_HEADWAY", "warning") >>
    ELSE <<>>

RECURSIVE float_check_adjacent(_, _, _)
float_check_adjacent(block_id, st, i) ==
    IF i >= Len(st) THEN <<>>
    ELSE float_collision_check(st[i], st[i + 1], block_id)
         \o float_headway_check(st[i], st[i + 1], block_id)
         \o float_check_adjacent(block_id, st, i + 1)

RECURSIVE float_check_blocks(_, _)
float_check_blocks(tl, n) ==
    IF n > Len(tl.order) THEN <<>>
    ELSE float_check_adjacent(tl.order[n], sorted_timeline(tl.at[tl.order[n]]), 1)
         \o float_check_blocks(tl, n + 1)

\* CollisionDetector.validate_schedule; the trains all run in one direction,
\* so the head-on check compares no pair
float_validate_schedule(entries, ts) ==
    LET vs == float_check_blocks(float_build_timeline(entries, Visits(ts, 1), 1,
                                                      EmptyTimeline), 1)
              \o check_head_on_collisions(entries, ts)
    IN [is_safe |-> ~(\E n \in 1..Len(vs) : vs[n].severity = "critical"),
        violations |-> vs]

\* headways, and (priority, departure) keys and profiles of the trains: all
\* trains run "up", on known blocks, no block twice
RoundHeadways == {0, 3, 4}
RoundKeys == {<<1, 7>>, <<1, 23>>, <<2, 0>>}
RoundProfiles ==
    { [route |-> <<"B1">>, max_speed_kmph |-> 100, dwell_min |-> 2, direction |-> "up"],
      [route |-> <<"B1", "B2">>, max_speed_kmph |-> 100, dwell_min |-> 2, direction |-> "up"] }

RoundFleets ==
    UNION { { [i \in 1..n |-> MakeTrain(i, c[i][1], c[i][2])] :
              c \in [1..n -> RoundKeys \X RoundProfiles] } : n \in 0..MaxTrains }

InitRound ==
    /\ headway_min \in RoundHeadways
    /\ trains \in RoundFleets
    /\ schedule = None
    /\ status = "none"
    /\ current_time = None
    /\ prev_time = None
    /\ calls = 0
    /\ validated = FALSE
    /\ violations = <<>>
    /\ is_safe = TRUE
    /\ clearance = <<>>
    /\ crossing = <<>>
    /\ NotSimulating

\* schedule = optimizer.optimize(trains, now)
OptimizeFloat(now) ==
    /\ status = "none"
    /\ schedule' = float_optimize(trains, now)
    /\ status' = "returned"
    /\ current_time' = now
    /\ prev_time' = current_time
    /\ calls' = Min(calls + 1, 2)
    /\ UNCHANGED <<headway_min, trains, validated, violations, is_safe,
                   clearance, crossing, simvars>>

\* is_safe, violations = collision_detector.validate_schedule(schedule, trains)
ValidateFloat ==
    /\ status = "returned"
    /\ ~validated
    /\ LET r == float_validate_schedule(schedule, trains) IN
         /\ is_safe' = r.is_safe
         /\ violations' = r.violations
    /\ validated' = TRUE
    /\ UNCHANGED <<headway_min, trains, schedule, status, current_time, prev_time, calls,
                   clearance, crossing, simvars>>

NextRound ==
    \/ \E now \in NowChoices : OptimizeFloat(now)
    \/ ValidateFloat

SpecRound == InitRound /\ [][NextRound]_vars

\* C35: the scheduler's output is clean for the validator: for trains with
\* known, non-repeating route blocks, a headway >= 0 and any current time,
\* validate_schedule(optimize(trains, now), trains) returns is_safe = true
\* and an empty violation list.
C35_SchedulerOutputClean ==
    (status = "returned" /\ validated) =>
        /\ is_safe
        /\ violations = <<>>


(***************************************************************************)
(* The busy-block specification: up to MaxOnBlock trains with single-block *)
(* routes and any entries, so that a block holds pairs of trains that are  *)
(* not adjacent in entry order; then validate_schedule.                    *)
(***************************************************************************)
BusyTimes == {0, 10, 12, 20}

BusyProfiles ==
    { pr \in ValProfiles : pr.route \in {<<"B1">>, <<"B2">>}
                           /\ (pr.route = <<"B2">> => pr.direction = "up") }

BusyChoices ==
    { [profile |-> pr, entries |-> (pr.route[1] :> t)] : pr \in BusyProfiles, t \in BusyTimes }

BusyInputs == UNION { [1..n -> BusyChoices] : n \in 0..MaxOnBlock }

InitBusy ==
    /\ headway_min = 3
    /\ \E c \in BusyInputs :
           /\ trains = [i \in 1..Len(c) |-> MakeTrain(i, <<1, 0>>, c[i].profile)]
           /\ schedule = [i \in 1..Len(c) |-> c[i].entries]
    /\ status = "none"
    /\ current_time = None
    /\ prev_time = None
    /\ calls = 0
    /\ validated = FALSE
    /\ violations = <<>>
    /\ is_safe = TRUE
    /\ clearance = <<>>
    /\ crossing = <<>>
    /\ NotSimulating

SpecBusy == InitBusy /\ [][NextVal]_vars

\* C36: is_safe is sound although only entry-adjacent pairs are compared:
\* when validate_schedule returns is_safe = true for a schedule whose windows
\* have positive length, no two trains' recomputed windows on any block
\* overlap, the pairs that are not adjacent in entry order included.
C36_SafeMeansDisjoint ==
    (validated /\ is_safe) =>
        \A b \in DOMAIN block_map : \A n \in OnBlock(b), m \in OnBlock(b) :
            n # m => ~Overlapping(n, m, b)

\* a schedule found safe with three trains on one block, the first and the
\* last of them not adjacent in entry order
C36_Witness ==
    /\ validated
    /\ is_safe
    /\ \E b \in DOMAIN block_map : \E n \in OnBlock(b), k \in OnBlock(b), m \in OnBlock(b) :
           /\ Precedes(n, k, b)
           /\ Precedes(k, m, b)
           /\ ~Adjacent(n, m, b)
           /\ ExitOf(schedule, trains[n], b) > EntryOf(schedule, trains[n], b)


\* the run went through every tick up to max_time
FullRun ==
    /\ phase = "returned"
    /\ sim_current_time > MaxTime

\* the sum of the delays the disruption records, from the n-th on, name for train k
RECURSIVE RecordedDelay(_, _)
RecordedDelay(k, n) ==
    IF n > Len(disruptions) THEN 0
    ELSE (IF disruptions[n].type = "train_delay" /\ disruptions[n].train_id = k
          THEN disruptions[n].delay_min ELSE 0) + RecordedDelay(k, n + 1)

\* C37: each disruption record is applied exactly once in a run: for
\* disruption times within [0, max_time], multiples of the tick step or not,
\* when the run has gone through every tick each train's departure time has
\* grown by the delays recorded for it, once each, and the log holds exactly
\* one DISRUPTION event per record.
C37_AppliedOnce ==
    FullRun =>
        /\ \A k \in 1..Len(trains) :
               trains[k].dep_time_min = original_dep[k] + RecordedDelay(k, 1)
        /\ Cardinality({ i \in 1..Len(events) : events[i].event_type = "DISRUPTION" })
               = Len(disruptions)


\* the occupancy map and the train locations say the same
OccupancyAgrees ==
    phase # "idle" =>
        \A b \in DOMAIN sim_block_occupancy : \A k \in 1..Len(train_states) :
            sim_block_occupancy[b] = k
                <=> (~train_states[k].finished /\ train_states[k].location = b)

\* C38: the occupancy map and the train locations agree in every state of a
\* run: a block's recorded occupant is train T if and only if T is unfinished
\* and located in that block; and the step of a train never clears or
\* replaces the record of a block that another train occupies.
C38_OccupancyMatchesLocations ==
    [][ /\ OccupancyAgrees'
        /\ \A k \in 1..Len(train_states) :
               StepOf(k) =>
                   \A b \in DOMAIN sim_block_occupancy :
                       sim_block_occupancy[b] \notin {NoTrain, k}
                           => sim_block_occupancy'[b] = sim_block_occupancy[b] ]_vars


\* the ids of the trains that are finished
Finished == { k \in 1..Len(train_states) : train_states[k].finished }

\* the number of COMPLETION events logged for train k
CompletionEvents(k) ==
    Cardinality({ i \in 1..Len(events) :
                    events[i].event_type = "COMPLETION" /\ events[i].train_id = k })

\* the completion count, the finished flags and the log say the same
CompletionsCounted ==
    phase # "idle" =>
        /\ kpis.completed_trains = Cardinality(Finished)
        /\ kpis.completed_trains <= kpis.total_trains
        /\ \A k \in 1..Len(train_states) :
               /\ train_states[k].finished => train_states[k].location = None
               /\ CompletionEvents(k) = (IF k \in Finished THEN 1 ELSE 0)

\* C39: completion is counted once and is absorbing: in every state of a run
\* kpis.completed_trains is the number of finished train states and at most
\* total_trains, a finished train has no location and exactly one COMPLETION
\* event, an unfinished one none; and the state of a finished train (route
\* index, location, delay, finished flag) never changes again.
C39_CompletionOnce ==
    [][ /\ CompletionsCounted'
        /\ \A k \in Finished : train_states'[k] = train_states[k] ]_vars

\* a train has completed and the run has gone on for at least two more ticks
C39_Witness ==
    /\ phase = "returned"
    /\ kpis.completed_trains >= 1
    /\ \E k \in Finished :
           \E i \in 1..Len(events) :
               /\ events[i].event_type = "COMPLETION"
               /\ events[i].train_id = k
               /\ events[i].timestamp + 2 <= sim_current_time


\* C40: section utilization is a valid percentage: the busy time of each
\* block never exceeds max_time, although the loop runs max_time / step + 1
\* ticks, and the section_utilization a run returns lies in [0, 100].
C40_UtilizationIsPercentage ==
    /\ phase # "idle" =>
           \A b \in DOMAIN block_busy_time :
               block_busy_time[b] >= 0 /\ block_busy_time[b] <= MaxTime
    /\ phase = "returned" =>
           /\ kpis.section_utilization.den > 0
           /\ kpis.section_utilization.num >= 0
           /\ kpis.section_utilization.num <= 100 * kpis.section_utilization.den

\* a run of all max_time + 1 ticks that returns with a block that was busy
C40_Witness ==
    /\ FullRun
    /\ sim_current_time = MaxTime + TimeStep
    /\ \E b \in DOMAIN block_busy_time : block_busy_time[b] >= 10
    /\ kpis.section_utilization.num > 0

=============================================================================
